---- MODULE Spec2Model ----
(***************************************************************************)
(* A model of the Zitadel MCP server: the authenticated API client         *)
(* (src/auth/client.ts), the tool dispatcher (index.ts), the identifier    *)
(* validator (types/tools.ts), the argument redaction and the tool         *)
(* registry (tools/index.ts).                                              *)
(*                                                                         *)
(* Strings whose characters matter (identifiers) are sequences of          *)
(* one-character strings; JSON values are tagged records.                  *)
(***************************************************************************)
EXTENDS Integers, Sequences, FiniteSets, TLC

VARIABLES
    \* ---- identifier validator (types/tools.ts) ----
    idLabel,      \* the label given to zitadelId(label)
    idInput,      \* the value handed to the schema
    idResult,     \* the outcome of schema.parse, or NotRun
    \* ---- argument redaction (index.ts) ----
    raArgs,       \* the args object handed to redactArgs (it may be mutated)
    raArgs0,      \* the same object as it was before the call
    raSafe,       \* the object redactArgs returned, or NotRun
    lg,           \* two tool calls served side by side, with the log records of each
    \* ---- tool registry (tools/index.ts) ----
    mods,         \* the module-level arrays and objects the registry reads
    regLog,       \* the calls of getTools / getHandlers so far, with what they returned
    \* ---- API client (auth/client.ts) ----
    now,          \* Date.now(), in milliseconds
    keyOk,        \* whether the configured private key can be imported and signs
    cachedToken,  \* ZitadelClient.cachedToken: Null or [token, expiresAt]
    req,          \* the request() invocations: one record per slot
    nStarted,     \* request() invocations so far
    post401,      \* history: "clean" from a 401 until a token is stored ("overwritten")
                  \* or the next acquisition starts ("none")
    \* ---- tool dispatcher (index.ts) and the handlers (tools/*.ts) ----
    ctx,          \* the HandlerContext; ctx.config is the result of loadConfig()
    call,         \* the tool call being served, or the last one served
    nCalls,       \* tool calls received so far
    prevFailed,   \* history: an earlier tool call was answered with isError
    \* ---- one request() with its token at hand; the signed assertions ----
    rq,           \* token, options, response and cache of one call, and its outcome
    jw            \* the clock of the signer and the assertions built so far

idVars == <<idLabel, idInput, idResult>>
raVars == <<raArgs, raArgs0, raSafe, lg>>
regVars == <<mods, regLog>>
clVars == <<now, keyOk, cachedToken, req, nStarted, post401>>
dVars == <<ctx, call, nCalls, prevFailed>>
rqVars == <<rq, jw>>
vars == <<idVars, raVars, regVars, clVars, dVars, rqVars>>

NotRun == [t |-> "notrun"]

-----------------------------------------------------------------------------
(* JSON values *)

Undefined == [t |-> "undefined"]
Str(s) == [t |-> "string", v |-> s]
Num(n) == [t |-> "number", v |-> n]
Bool(b) == [t |-> "boolean", v |-> b]
IsStr(x) == x.t = "string"

-----------------------------------------------------------------------------
(* zitadelId: z.string().min(1, ..).regex(/^[a-zA-Z0-9_-]+$/, ..) *)

Lower == {"a","b","c","d","e","f","g","h","i","j","k","l","m",
          "n","o","p","q","r","s","t","u","v","w","x","y","z"}
Upper == {"A","B","C","D","E","F","G","H","I","J","K","L","M",
          "N","O","P","Q","R","S","T","U","V","W","X","Y","Z"}
Digit == {"0","1","2","3","4","5","6","7","8","9"}

\* The character class [a-zA-Z0-9_-].
IdClassLoose == Lower \cup Upper \cup Digit \cup {"_", "-", "."}
IdClass == Lower \cup Upper \cup Digit \cup {"_", "-"}

\* /^[a-zA-Z0-9_-]+$/.test(s): no m flag, so ^ and $ are the ends of the input.
IdRegexTest(s) == Len(s) >= 1 /\ \A i \in 1..Len(s) : s[i] \in IdClass

\* zod runs every check of a string schema and collects the issues in order;
\* a value that is not a string fails the type check before any of them.
zitadelId(label, x) ==
    IF x = Undefined
    THEN [ok |-> FALSE, issues |-> <<"Required">>]
    ELSE IF ~IsStr(x)
    THEN [ok |-> FALSE, issues |-> <<"Expected string, received " \o x.t>>]
    ELSE LET minIssue == IF Len(x.v) < 1 THEN <<label \o " is required">> ELSE <<>>
             reIssue  == IF ~IdRegexTest(x.v)
                         THEN <<label \o " must be alphanumeric">> ELSE <<>>
             issues   == minIssue \o reIssue
         IN IF issues = <<>>
            THEN [ok |-> TRUE, value |-> x]
            ELSE [ok |-> FALSE, issues |-> issues]

-----------------------------------------------------------------------------
(* The inputs of the validator *)

MaxIdLen == 2

\* One or two characters of every kind the pattern tells apart, and the
\* characters the tests name: slash, dot, space, a control character, % ; & < >.
IdAlphabet == {"a", "Z", "7", "_", "-", "/", ".", " ", "\n", "%", ";", "&", "<", ">"}

SeqsUpTo(S, n) == UNION {[1..k -> S] : k \in 0..n}

InSeq(m, q) == \E i \in 1..Len(q) : q[i] = m

IdLabels == {"ID", "userId"}

\* schema.parse(value)
ParseId ==
    /\ idResult = NotRun
    /\ idResult' = zitadelId(idLabel, idInput)
    /\ UNCHANGED <<idLabel, idInput, raVars, regVars, clVars, dVars, rqVars>>

-----------------------------------------------------------------------------
(* redactArgs *)

Txt(s) == [t |-> "string", txt |-> s]

\* Fields that should never appear in debug logs.
REDACTED_FIELDS == {"email", "firstName", "lastName", "userName",
                    "redirectUris", "postLogoutRedirectUris",
                    "appUrl", "iconUrl"}

REDACTED == Txt("[REDACTED]")

\* An args object is a function from its own keys to values.  The loop writes
\* every entry of args into the new object safe and writes nothing into args.
redactArgsNoSet(args) ==
    [safe |-> [k \in DOMAIN args |->
                  IF k \in {"email"} THEN REDACTED ELSE args[k]],
     args |-> args]
redactArgs(args) ==
    [safe |-> [k \in DOMAIN args |->
                  IF k \in REDACTED_FIELDS THEN REDACTED ELSE args[k]],
     args |-> args]

MaxArgKeys == 2

\* The redacted field names, a field whose name differs from one only in case,
\* and two fields that are not personal data.
RaKeys == REDACTED_FIELDS \cup {"userId", "slug", "Email"}
RaValues == {Txt("a@b.com"), Num(123)}

RaObjects ==
    UNION {[K -> RaValues] : K \in {K \in SUBSET RaKeys : Cardinality(K) <= MaxArgKeys}}

\* redactArgs(rawArgs)
Redact ==
    /\ raSafe = NotRun
    /\ LET r == redactArgs(raArgs)
       IN raSafe' = r.safe /\ raArgs' = r.args
    /\ UNCHANGED <<raArgs0, lg, idVars, regVars, clVars, dVars, rqVars>>

-----------------------------------------------------------------------------

(* The tool modules: the definitions and the name -> handler objects *)

USER_TOOLS == <<
    [name |-> "zitadel_list_users",
     description |-> "List or search users in the Zitadel instance. Returns user details including name, email, status, and login names.",
     inputSchema |-> [properties |-> {"limit", "query"}, required |-> <<>>],
     _meta |-> [readOnly |-> TRUE, domain |-> "users"],
     annotations |-> [title |-> "List Users", readOnlyHint |-> TRUE, destructiveHint |-> FALSE, idempotentHint |-> TRUE]],
    [name |-> "zitadel_get_user",
     description |-> "Get detailed information about a specific user by their user ID.",
     inputSchema |-> [properties |-> {"userId"}, required |-> <<"userId">>],
     _meta |-> [readOnly |-> TRUE, domain |-> "users"],
     annotations |-> [title |-> "Get User", readOnlyHint |-> TRUE, destructiveHint |-> FALSE, idempotentHint |-> TRUE]],
    [name |-> "zitadel_create_user",
     description |-> "Create a new human user in Zitadel. An invitation email will be sent automatically so the user can set their password.",
     inputSchema |-> [properties |-> {"email", "firstName", "lastName"}, required |-> <<"email", "firstName", "lastName">>],
     _meta |-> [readOnly |-> FALSE, domain |-> "users"],
     annotations |-> [title |-> "Create User", readOnlyHint |-> FALSE, destructiveHint |-> FALSE, idempotentHint |-> FALSE]],
    [name |-> "zitadel_deactivate_user",
     description |-> "Deactivate a user account. The user will no longer be able to log in.",
     inputSchema |-> [properties |-> {"userId"}, required |-> <<"userId">>],
     _meta |-> [readOnly |-> FALSE, domain |-> "users"],
     annotations |-> [title |-> "Deactivate User", readOnlyHint |-> FALSE, destructiveHint |-> TRUE, idempotentHint |-> TRUE]],
    [name |-> "zitadel_reactivate_user",
     description |-> "Reactivate a previously deactivated user account.",
     inputSchema |-> [properties |-> {"userId"}, required |-> <<"userId">>],
     _meta |-> [readOnly |-> FALSE, domain |-> "users"],
     annotations |-> [title |-> "Reactivate User", readOnlyHint |-> FALSE, destructiveHint |-> FALSE, idempotentHint |-> TRUE]]
>>

USER_HANDLERS ==
    ("zitadel_list_users" :> "listUsersHandler") @@
    ("zitadel_get_user" :> "getUserHandler") @@
    ("zitadel_create_user" :> "createUserHandler") @@
    ("zitadel_deactivate_user" :> "deactivateUserHandler") @@
    ("zitadel_reactivate_user" :> "reactivateUserHandler")

PROJECT_TOOLS == <<
    [name |-> "zitadel_list_projects",
     description |-> "List all projects in the Zitadel organization.",
     inputSchema |-> [properties |-> {"limit"}, required |-> <<>>],
     _meta |-> [readOnly |-> TRUE, domain |-> "projects"],
     annotations |-> [title |-> "List Projects", readOnlyHint |-> TRUE, destructiveHint |-> FALSE, idempotentHint |-> TRUE]],
    [name |-> "zitadel_get_project",
     description |-> "Get details of a specific project by its ID.",
     inputSchema |-> [properties |-> {"projectId"}, required |-> <<"projectId">>],
     _meta |-> [readOnly |-> TRUE, domain |-> "projects"],
     annotations |-> [title |-> "Get Project", readOnlyHint |-> TRUE, destructiveHint |-> FALSE, idempotentHint |-> TRUE]],
    [name |-> "zitadel_create_project",
     description |-> "Create a new project in Zitadel. Projects contain applications, roles, and grants.",
     inputSchema |-> [properties |-> {"name", "projectRoleAssertion", "projectRoleCheck"}, required |-> <<"name">>],
     _meta |-> [readOnly |-> FALSE, domain |-> "projects"],
     annotations |-> [title |-> "Create Project", readOnlyHint |-> FALSE, destructiveHint |-> FALSE, idempotentHint |-> FALSE]]
>>

PROJECT_HANDLERS ==
    ("zitadel_list_projects" :> "listProjectsHandler") @@
    ("zitadel_get_project" :> "getProjectHandler") @@
    ("zitadel_create_project" :> "createProjectHandler")

APPLICATION_TOOLS == <<
    [name |-> "zitadel_list_apps",
     description |-> "List all applications in a Zitadel project.",
     inputSchema |-> [properties |-> {"projectId"}, required |-> <<"projectId">>],
     _meta |-> [readOnly |-> TRUE, domain |-> "applications"],
     annotations |-> [title |-> "List Apps", readOnlyHint |-> TRUE, destructiveHint |-> FALSE, idempotentHint |-> TRUE]],
    [name |-> "zitadel_get_app",
     description |-> "Get details of a specific application including its Client ID and OIDC configuration.",
     inputSchema |-> [properties |-> {"appId", "projectId"}, required |-> <<"projectId", "appId">>],
     _meta |-> [readOnly |-> TRUE, domain |-> "applications"],
     annotations |-> [title |-> "Get App", readOnlyHint |-> TRUE, destructiveHint |-> FALSE, idempotentHint |-> TRUE]],
    [name |-> "zitadel_create_oidc_app",
     description |-> "Create a new OIDC application in a Zitadel project. Returns the Client ID (and Client Secret for confidential clients). Configure redirect URIs, response types, and grant types.",
     inputSchema |-> [properties |-> {"appType", "authMethodType", "devMode", "name", "postLogoutRedirectUris", "projectId", "redirectUris"}, required |-> <<"projectId", "name", "redirectUris">>],
     _meta |-> [readOnly |-> FALSE, domain |-> "applications"],
     annotations |-> [title |-> "Create OIDC App", readOnlyHint |-> FALSE, destructiveHint |-> FALSE, idempotentHint |-> FALSE]],
    [name |-> "zitadel_update_app",
     description |-> "Update an OIDC application's configuration (redirect URIs, auth method, etc.).",
     inputSchema |-> [properties |-> {"appId", "devMode", "postLogoutRedirectUris", "projectId", "redirectUris"}, required |-> <<"projectId", "appId">>],
     _meta |-> [readOnly |-> FALSE, domain |-> "applications"],
     annotations |-> [title |-> "Update App", readOnlyHint |-> FALSE, destructiveHint |-> FALSE, idempotentHint |-> TRUE]]
>>

APPLICATION_HANDLERS ==
    ("zitadel_list_apps" :> "listAppsHandler") @@
    ("zitadel_get_app" :> "getAppHandler") @@
    ("zitadel_create_oidc_app" :> "createOIDCAppHandler") @@
    ("zitadel_update_app" :> "updateAppHandler")

ROLE_TOOLS == <<
    [name |-> "zitadel_list_project_roles",
     description |-> "List all roles defined in a Zitadel project (e.g., \"admin\", \"app:finance\").",
     inputSchema |-> [properties |-> {"projectId"}, required |-> <<>>],
     _meta |-> [readOnly |-> TRUE, domain |-> "roles"],
     annotations |-> [title |-> "List Project Roles", readOnlyHint |-> TRUE, destructiveHint |-> FALSE, idempotentHint |-> TRUE]],
    [name |-> "zitadel_create_project_role",
     description |-> "Create a new role in a Zitadel project. Use key format \"app:{slug}\" for app-specific access roles.",
     inputSchema |-> [properties |-> {"displayName", "group", "projectId", "roleKey"}, required |-> <<"roleKey", "displayName">>],
     _meta |-> [readOnly |-> FALSE, domain |-> "roles"],
     annotations |-> [title |-> "Create Project Role", readOnlyHint |-> FALSE, destructiveHint |-> FALSE, idempotentHint |-> TRUE]],
    [name |-> "zitadel_list_user_grants",
     description |-> "List role grants for a specific user, showing which roles they have been assigned.",
     inputSchema |-> [properties |-> {"projectId", "userId"}, required |-> <<"userId">>],
     _meta |-> [readOnly |-> TRUE, domain |-> "roles"],
     annotations |-> [title |-> "List User Grants", readOnlyHint |-> TRUE, destructiveHint |-> FALSE, idempotentHint |-> TRUE]],
    [name |-> "zitadel_create_user_grant",
     description |-> "Assign roles to a user by creating a grant. Validates that the roles exist in the project before granting.",
     inputSchema |-> [properties |-> {"projectId", "roleKeys", "userId"}, required |-> <<"userId", "roleKeys">>],
     _meta |-> [readOnly |-> FALSE, domain |-> "roles"],
     annotations |-> [title |-> "Create User Grant", readOnlyHint |-> FALSE, destructiveHint |-> FALSE, idempotentHint |-> FALSE]],
    [name |-> "zitadel_remove_user_grant",
     description |-> "Remove a role grant from a user by grant ID.",
     inputSchema |-> [properties |-> {"grantId", "userId"}, required |-> <<"userId", "grantId">>],
     _meta |-> [readOnly |-> FALSE, domain |-> "roles"],
     annotations |-> [title |-> "Remove User Grant", readOnlyHint |-> FALSE, destructiveHint |-> TRUE, idempotentHint |-> TRUE]]
>>

ROLE_HANDLERS ==
    ("zitadel_list_project_roles" :> "listProjectRolesHandler") @@
    ("zitadel_create_project_role" :> "createProjectRoleHandler") @@
    ("zitadel_list_user_grants" :> "listUserGrantsHandler") @@
    ("zitadel_create_user_grant" :> "createUserGrantHandler") @@
    ("zitadel_remove_user_grant" :> "removeUserGrantHandler")

SERVICE_ACCOUNT_TOOLS == <<
    [name |-> "zitadel_create_service_user",
     description |-> "Create a new service account (machine user) for API access. Service accounts authenticate via JWT keys, not passwords.",
     inputSchema |-> [properties |-> {"accessTokenType", "description", "name", "userName"}, required |-> <<"userName", "name">>],
     _meta |-> [readOnly |-> FALSE, domain |-> "service-accounts"],
     annotations |-> [title |-> "Create Service User", readOnlyHint |-> FALSE, destructiveHint |-> FALSE, idempotentHint |-> FALSE]],
    [name |-> "zitadel_create_service_user_key",
     description |-> "Generate a new key pair for a service account. The private key is returned ONLY at creation time - save it immediately.",
     inputSchema |-> [properties |-> {"expirationDate", "userId"}, required |-> <<"userId">>],
     _meta |-> [readOnly |-> FALSE, domain |-> "service-accounts"],
     annotations |-> [title |-> "Create Service User Key", readOnlyHint |-> FALSE, destructiveHint |-> FALSE, idempotentHint |-> FALSE]],
    [name |-> "zitadel_list_service_user_keys",
     description |-> "List existing keys for a service account. Shows key metadata only (not private keys).",
     inputSchema |-> [properties |-> {"userId"}, required |-> <<"userId">>],
     _meta |-> [readOnly |-> TRUE, domain |-> "service-accounts"],
     annotations |-> [title |-> "List Service User Keys", readOnlyHint |-> TRUE, destructiveHint |-> FALSE, idempotentHint |-> TRUE]]
>>

SERVICE_ACCOUNT_HANDLERS ==
    ("zitadel_create_service_user" :> "createServiceUserHandler") @@
    ("zitadel_create_service_user_key" :> "createServiceUserKeyHandler") @@
    ("zitadel_list_service_user_keys" :> "listServiceUserKeysHandler")

ORG_TOOLS == <<
    [name |-> "zitadel_get_org",
     description |-> "Get details of the current organization (based on the configured ZITADEL_ORG_ID).",
     inputSchema |-> [properties |-> {}, required |-> <<>>],
     _meta |-> [readOnly |-> TRUE, domain |-> "organizations"],
     annotations |-> [title |-> "Get Organization", readOnlyHint |-> TRUE, destructiveHint |-> FALSE, idempotentHint |-> TRUE]],
    [name |-> "zitadel_list_orgs",
     description |-> "List all organizations in the Zitadel instance. Requires IAM-level admin permissions.",
     inputSchema |-> [properties |-> {"limit"}, required |-> <<>>],
     _meta |-> [readOnly |-> TRUE, domain |-> "organizations"],
     annotations |-> [title |-> "List Organizations", readOnlyHint |-> TRUE, destructiveHint |-> FALSE, idempotentHint |-> TRUE]]
>>

ORG_HANDLERS ==
    ("zitadel_get_org" :> "getOrgHandler") @@
    ("zitadel_list_orgs" :> "listOrgsHandler")

PORTAL_TOOLS == <<
    [name |-> "portal_register_app",
     description |-> "Register an application in the app-portal database so it appears in the portal UI. This only creates the portal DB record - use zitadel_create_oidc_app separately if you also need the Zitadel OIDC app.",
     inputSchema |-> [properties |-> {"appUrl", "description", "iconUrl", "name", "slug"}, required |-> <<"slug", "name", "appUrl">>],
     _meta |-> [readOnly |-> FALSE, domain |-> "portal"],
     annotations |-> [title |-> "Register App in Portal", readOnlyHint |-> FALSE, destructiveHint |-> FALSE, idempotentHint |-> FALSE]],
    [name |-> "portal_setup_full_app",
     description |-> "One-click app setup: creates a Zitadel project (or uses existing), OIDC application, project role, AND registers the app in the portal database. Returns the .env.local configuration for the new app.",
     inputSchema |-> [properties |-> {"appUrl", "description", "devMode", "iconUrl", "name", "projectId", "redirectUris", "slug"}, required |-> <<"name", "slug", "appUrl">>],
     _meta |-> [readOnly |-> FALSE, domain |-> "portal"],
     annotations |-> [title |-> "Full App Setup", readOnlyHint |-> FALSE, destructiveHint |-> FALSE, idempotentHint |-> FALSE]]
>>

PORTAL_HANDLERS ==
    ("portal_register_app" :> "portalRegisterAppHandler") @@
    ("portal_setup_full_app" :> "portalSetupFullAppHandler")

\* tools/utility.ts: one tool (README, and the handler the tests call).
UTILITY_TOOLS == <<
    [name |-> "zitadel_get_auth_config",
     description |-> "Get .env.local template for an app",
     inputSchema |-> [properties |-> {"appId", "projectId"}, required |-> <<"projectId", "appId">>],
     _meta |-> [readOnly |-> TRUE, domain |-> "utility"],
     annotations |-> [title |-> "Get Auth Config", readOnlyHint |-> TRUE, destructiveHint |-> FALSE, idempotentHint |-> TRUE]]
>>

UTILITY_HANDLERS ==
    ("zitadel_get_auth_config" :> "getAuthConfigHandler")

Modules ==
    [USER_TOOLS |-> USER_TOOLS, USER_HANDLERS |-> USER_HANDLERS,
     PROJECT_TOOLS |-> PROJECT_TOOLS, PROJECT_HANDLERS |-> PROJECT_HANDLERS,
     APPLICATION_TOOLS |-> APPLICATION_TOOLS, APPLICATION_HANDLERS |-> APPLICATION_HANDLERS,
     ROLE_TOOLS |-> ROLE_TOOLS, ROLE_HANDLERS |-> ROLE_HANDLERS,
     SERVICE_ACCOUNT_TOOLS |-> SERVICE_ACCOUNT_TOOLS,
     SERVICE_ACCOUNT_HANDLERS |-> SERVICE_ACCOUNT_HANDLERS,
     ORG_TOOLS |-> ORG_TOOLS, ORG_HANDLERS |-> ORG_HANDLERS,
     UTILITY_TOOLS |-> UTILITY_TOOLS, UTILITY_HANDLERS |-> UTILITY_HANDLERS,
     PORTAL_TOOLS |-> PORTAL_TOOLS, PORTAL_HANDLERS |-> PORTAL_HANDLERS]

-----------------------------------------------------------------------------
(* Configuration (utils/config.ts) *)

\* JavaScript's falsy values among the ones the model uses.
Falsy(x) ==
    \/ x.t \in {"undefined", "null"}
    \/ x.t = "string" /\ (IF "txt" \in DOMAIN x THEN x.txt = "" ELSE x.v = <<>>)
    \/ x.t = "number" /\ x.v = 0
    \/ x.t = "boolean" /\ x.v = FALSE

\* a || b
Or(a, b) == IF Falsy(a) THEN b ELSE a

\* loadConfig: the two optional settings are read as  process.env[..] || undefined;
\* the required ones are fixed here.
loadConfig(env) ==
    [issuer |-> "https://test.zitadel.cloud",
     serviceAccountUserId |-> "sa-user",
     serviceAccountKeyId |-> "key-1",
     orgId |-> "org-1",
     projectId |-> Or(env.ZITADEL_PROJECT_ID, Undefined),
     portalDatabaseUrl |-> Or(env.PORTAL_DATABASE_URL, Undefined)]

isPortalEnabled(config) == ~Falsy(config.portalDatabaseUrl)

-----------------------------------------------------------------------------
(* The registry (tools/index.ts) *)

\* { ...a, ...b } and Object.assign(a, b): b's entries win.
Assign(a, b) ==
    [k \in DOMAIN a \cup DOMAIN b |-> IF k \in DOMAIN b THEN b[k] ELSE a[k]]

\* getTools builds a new array from the modules' arrays and pushes the portal
\* tools onto that new array; M is the modules as the call finds them, and
\* .mods the modules as it leaves them.
getToolsShared(config, M) ==
    LET tools == M.USER_TOOLS \o M.PROJECT_TOOLS \o M.APPLICATION_TOOLS \o M.ROLE_TOOLS
                 \o M.SERVICE_ACCOUNT_TOOLS \o M.ORG_TOOLS \o M.UTILITY_TOOLS
    IN IF isPortalEnabled(config)
       THEN [ret |-> tools \o M.PORTAL_TOOLS,
             mods |-> [M EXCEPT !.UTILITY_TOOLS = @ \o M.PORTAL_TOOLS]]
       ELSE [ret |-> tools, mods |-> M]
getTools(config, M) ==
    LET tools == M.USER_TOOLS \o M.PROJECT_TOOLS \o M.APPLICATION_TOOLS \o M.ROLE_TOOLS
                 \o M.SERVICE_ACCOUNT_TOOLS \o M.ORG_TOOLS \o M.UTILITY_TOOLS
    IN IF isPortalEnabled(config)
       THEN [ret |-> tools \o M.PORTAL_TOOLS, mods |-> M]
       ELSE [ret |-> tools, mods |-> M]

getHandlersNoPortal(config, M) ==
    [ret |-> Assign(Assign(Assign(Assign(Assign(Assign(M.USER_HANDLERS,
                 M.PROJECT_HANDLERS), M.APPLICATION_HANDLERS), M.ROLE_HANDLERS),
                 M.SERVICE_ACCOUNT_HANDLERS), M.ORG_HANDLERS), M.UTILITY_HANDLERS),
     mods |-> M]
getHandlers(config, M) ==
    LET handlers == Assign(Assign(Assign(Assign(Assign(Assign(M.USER_HANDLERS,
                        M.PROJECT_HANDLERS), M.APPLICATION_HANDLERS), M.ROLE_HANDLERS),
                        M.SERVICE_ACCOUNT_HANDLERS), M.ORG_HANDLERS), M.UTILITY_HANDLERS)
    IN IF isPortalEnabled(config)
       THEN [ret |-> Assign(handlers, M.PORTAL_HANDLERS), mods |-> M]
       ELSE [ret |-> handlers, mods |-> M]

MaxRegCalls == 4

\* PORTAL_DATABASE_URL: not set, set to the empty string, set to a URL.
PortalEnvValues == {Undefined, Txt(""), Txt("postgres://portal")}

Env(project, portal) == [ZITADEL_PROJECT_ID |-> project, PORTAL_DATABASE_URL |-> portal]

\* getTools(loadConfig())
CallGetTools ==
    /\ Len(regLog) < MaxRegCalls
    /\ \E e \in PortalEnvValues :
          LET config == loadConfig(Env(Undefined, e))
              r == getTools(config, mods)
          IN /\ regLog' = Append(regLog, [fn |-> "getTools", config |-> config, ret |-> r.ret])
             /\ mods' = r.mods
    /\ UNCHANGED <<idVars, raVars, clVars, dVars, rqVars>>

\* getHandlers(loadConfig())
CallGetHandlers ==
    /\ Len(regLog) < MaxRegCalls
    /\ \E e \in PortalEnvValues :
          LET config == loadConfig(Env(Undefined, e))
              r == getHandlers(config, mods)
          IN /\ regLog' = Append(regLog, [fn |-> "getHandlers", config |-> config, ret |-> r.ret])
             /\ mods' = r.mods
    /\ UNCHANGED <<idVars, raVars, clVars, dVars, rqVars>>

\* ({ _meta, ...rest }) => rest
StripMetaKeep(tool) == tool

StripMeta(tool) == [k \in DOMAIN tool \ {"_meta"} |-> tool[k]]

\* The ListTools request handler, over the tools array built at startup:
\* tools.map(({ _meta, ...rest }) => rest). ret is the answer's tools, tools the
\* array after the call.
ListToolsHandler(tools) ==
    [ret |-> [i \in 1..Len(tools) |-> StripMeta(tools[i])], tools |-> tools]

\* const tools = getTools(config) at startup, then one ListTools request
CallListTools ==
    /\ Len(regLog) < MaxRegCalls
    /\ \E e \in PortalEnvValues :
          LET config == loadConfig(Env(Undefined, e))
              t == getTools(config, mods)
              r == ListToolsHandler(t.ret)
          IN /\ regLog' = Append(regLog, [fn |-> "listTools", config |-> config,
                                           registry |-> t.ret, tools |-> r.tools,
                                           ret |-> r.ret])
             /\ mods' = t.mods
    /\ UNCHANGED <<idVars, raVars, clVars, dVars, rqVars>>

-----------------------------------------------------------------------------

(* The API client (auth/client.ts) *)

Null == [t |-> "null"]

\* obj[key] of an object literal's own properties
Get(obj, key) == IF key \in DOMAIN obj THEN obj[key] ELSE Undefined

\* A thrown Error with its message, and a thrown value that is not an Error.
Err(message) == [instanceofError |-> TRUE, name |-> "Error", message |-> message]
NonError(value) == [instanceofError |-> FALSE, value |-> value]

\* new ZitadelAPIError(message, statusCode) (utils/logger.ts)
ZitadelAPIError(message, statusCode) ==
    [instanceofError |-> TRUE, name |-> "ZitadelAPIError", message |-> message,
     statusCode |-> statusCode]

\* throw new Error(`Failed to get access token: ${response.status} ${errorText}`)
TokenErrorBare(status, errorText) == Err("Failed to get access token")

TokenError(status, errorText) ==
    Err("Failed to get access token: " \o ToString(status) \o " " \o errorText)

\* errorData is the JSON body of the failed response, null when it does not
\* parse:  errorData?.message || `HTTP ${response.status}`
ErrorMessageStatusOnly(status, errorData) == "HTTP " \o ToString(status)

ErrorMessage(status, errorData) ==
    Or(IF errorData = Null THEN Undefined ELSE Get(errorData, "message"),
       Txt("HTTP " \o ToString(status))).txt

\* throw new Error(`Zitadel API error: ${errorMessage}`)
ApiError(status, errorData) ==
    Err("Zitadel API error: " \o ErrorMessage(status, errorData))

SAFETY_BUFFER_MS == 60000
DEFAULT_EXPIRES_IN == 3600

\* this.cachedToken && Date.now() < this.cachedToken.expiresAt - 60000
CacheValidNoBuffer(cache, t) ==
    cache # Null /\ t <= cache.expiresAt - SAFETY_BUFFER_MS
CacheValidWhenSet(cache, t) == cache # Null
CacheValid(cache, t) ==
    cache # Null /\ t < cache.expiresAt - SAFETY_BUFFER_MS

\* { token: data.access_token, expiresAt: Date.now() + (data.expires_in || 3600) * 1000 }
StoreTokenFixedExpiry(data, t) ==
    [token |-> data.access_token, expiresAt |-> DEFAULT_EXPIRES_IN * 1000]

StoreToken(data, t) ==
    [token |-> data.access_token,
     expiresAt |-> t + Or(data.expires_in, Num(DEFAULT_EXPIRES_IN)).v * 1000]

\* if (response.status === 401) this.clearTokenCache()
CacheAfterErrorKeep(status, cache) == cache
CacheAfterErrorClear(status, cache) == Null
CacheAfterError(status, cache) == IF status = 401 THEN Null ELSE cache

MaxRequests == 3    \* request() invocations in one behaviour

\* Two callers use the one client at the same time.
Slots == {"A", "B"}

\* The instants at which something happens.  A token cached at 0 with the default
\* lifetime has expiresAt = 3600000: it is looked up 100 s before that, exactly
\* at expiresAt - 60000, and 55 s before expiresAt.
Instants == {0, 3500000, 3540000, 3545000}

\* expires_in of a token response: absent, zero,
\* and two hours.
ExpiresInValues == {Undefined, Num(0), Num(7200)}

\* Statuses of the failed answers of the token endpoint and of the backend.
TokenErrorStatuses == {400}
BackendErrorStatuses == {401, 500}

\* Bodies of the failed answers: the text of a token-endpoint failure, and the
\* parsed body of a backend failure (null when it is not JSON).
TokenErrorTexts == {"", "invalid_grant"}
ErrorBodies == {Null, [message |-> Txt("not allowed")]}

\* A slot before its first invocation.  Afterwards it holds the state of its
\* latest invocation:  n its number, src where its token came from, tok the token, xdata and xat the
\* token response it received and when, after401 what post401 was when it started,
\* resp the failed response it received (from "token" or "api") and error the
\* value it threw.
IdleReq ==
    [pc |-> "idle", n |-> 0,
     src |-> "none", tok |-> 0, xdata |-> Null, xat |-> 0,
     tokenCalls |-> 0, backendCalls |-> 0, after401 |-> "none",
     resp |-> Null, error |-> Null]

pureVars == <<idVars, raVars, regVars, dVars, rqVars>>

Settled == {"idle", "resolved", "rejected"}

\* createPrivateKey or importPKCS8 throws in generateJwtAssertion: the error
\* leaves getAccessToken and request() before any fetch.
OnSigningErrorRetry(q) ==
    [q EXCEPT !.pc = "exchanging", !.src = "exchange", !.tokenCalls = 1]

OnSigningError(q) ==
    [q EXCEPT !.pc = "rejected", !.src = "exchange", !.error = Err("Invalid key")]

\* request() is called.  getAccessToken looks at the cache: a valid cached token
\* is returned and the backend call is issued with it.  Otherwise
\* generateJwtAssertion runs (its awaits touch nothing shared): it throws when
\* the key cannot be imported, else the token endpoint is called.
StartRequest(r) ==
    /\ req[r].pc \in Settled
    /\ nStarted < MaxRequests
    /\ nStarted' = nStarted + 1
    /\ post401' = "none"
    /\ LET fresh == [IdleReq EXCEPT !.n = nStarted + 1, !.after401 = post401]
       IN IF CacheValid(cachedToken, now)
          THEN req' = [req EXCEPT ![r] =
                   [fresh EXCEPT !.pc = "fetching", !.src = "cache",
                                 !.tok = cachedToken.token, !.backendCalls = 1]]
          ELSE IF keyOk
          THEN req' = [req EXCEPT ![r] =
                   [fresh EXCEPT !.pc = "exchanging", !.src = "exchange",
                                 !.tokenCalls = 1]]
          ELSE req' = [req EXCEPT ![r] = OnSigningError(fresh)]
    /\ UNCHANGED <<now, keyOk, cachedToken, pureVars>>

\* The token endpoint answers with a non-success status: getAccessToken throws.
TokenExchangeFails(r) ==
    /\ req[r].pc = "exchanging"
    /\ \E st \in TokenErrorStatuses, errorText \in TokenErrorTexts :
          req' = [req EXCEPT ![r].pc = "rejected",
                             ![r].resp = [from |-> "token", status |-> st, body |-> errorText],
                             ![r].error = TokenError(st, errorText)]
    /\ UNCHANGED <<now, keyOk, cachedToken, nStarted, post401, pureVars>>

\* The token endpoint answers with a token (invocation n receives token n): it
\* is cached, returned, and the backend call is issued with it.
TokenExchangeOk(r) ==
    /\ req[r].pc = "exchanging"
    /\ \E e \in ExpiresInValues :
          LET data == [access_token |-> req[r].n, expires_in |-> e]
          IN /\ cachedToken' = StoreToken(data, now)
             /\ req' = [req EXCEPT ![r].pc = "fetching", ![r].tok = data.access_token,
                                   ![r].xdata = data, ![r].xat = now,
                                   ![r].backendCalls = @ + 1]
    /\ post401' = IF post401 = "clean" THEN "overwritten" ELSE post401
    /\ UNCHANGED <<now, keyOk, nStarted, pureVars>>

\* The backend answers 2xx.
BackendOk(r) ==
    /\ req[r].pc = "fetching"
    /\ req' = [req EXCEPT ![r].pc = "resolved"]
    /\ UNCHANGED <<now, keyOk, cachedToken, nStarted, post401, pureVars>>

\* if (!response.ok) { ... throw new Error(..) }: the invocation q ends with the
\* error thrown; nothing is called again.
OnBackendErrorRetry(q, status, errorData) ==
    IF status = 401
    THEN [q EXCEPT !.pc = "exchanging", !.tokenCalls = @ + 1]
    ELSE [q EXCEPT !.pc = "rejected", !.error = ApiError(status, errorData),
                   !.resp = [from |-> "api", status |-> status, body |-> errorData]]

OnBackendError(q, status, errorData) ==
    [q EXCEPT !.pc = "rejected",
              !.resp = [from |-> "api", status |-> status, body |-> errorData],
              !.error = ApiError(status, errorData)]

\* The backend answers with a non-success status: on 401 the cache is cleared;
\* request throws.
BackendError(r) ==
    /\ req[r].pc = "fetching"
    /\ \E st \in BackendErrorStatuses, errorData \in ErrorBodies :
          /\ cachedToken' = CacheAfterError(st, cachedToken)
          /\ post401' = IF st = 401 THEN "clean" ELSE post401
          /\ req' = [req EXCEPT ![r] = OnBackendError(req[r], st, errorData)]
    /\ UNCHANGED <<now, keyOk, nStarted, pureVars>>

\* clearTokenCache() is called from outside a request.
ClearTokenCache ==
    /\ cachedToken' = Null
    /\ UNCHANGED <<now, keyOk, req, nStarted, post401, pureVars>>

\* Time passes.
Tick ==
    /\ \E t \in Instants : t > now /\ now' = t
    /\ UNCHANGED <<keyOk, cachedToken, req, nStarted, post401, pureVars>>

ClNext ==
    \/ \E r \in Slots :
          \/ StartRequest(r)
          \/ TokenExchangeFails(r)
          \/ TokenExchangeOk(r)
          \/ BackendOk(r)
          \/ BackendError(r)
    \/ ClearTokenCache
    \/ Tick

-----------------------------------------------------------------------------

(* request() from the token on: headers, fetch, the answer (auth/client.ts) *)

MaxSigned == 2      \* assertions built in one behaviour

Obj(props) == [t |-> "object", props |-> props]
EmptyProps == [k \in {} |-> ""]

\* The headers of the backend call:
\*   { Authorization: `Bearer ${token}`, 'Content-Type': 'application/json',
\*     'x-zitadel-orgid': this.config.orgId, ...(options.headers || {}) }
MergeHeadersDefaultsWin(token, config, options) ==
    Assign(Or(Get(options, "headers"), Obj(EmptyProps)).props,
           ("Authorization" :> "Bearer " \o token) @@
           ("Content-Type" :> "application/json") @@
           ("x-zitadel-orgid" :> config.orgId))

MergeHeaders(token, config, options) ==
    Assign(("Authorization" :> "Bearer " \o token) @@
           ("Content-Type" :> "application/json") @@
           ("x-zitadel-orgid" :> config.orgId),
           Or(Get(options, "headers"), Obj(EmptyProps)).props)

\* fetch(url, { ...options, headers })
FetchInit(options, headers) == Assign(options, "headers" :> Obj(headers))

\* JSON.parse and response.json() on the texts of RqResponses: the value, or the
\* SyntaxError thrown.
JSONParse(text) ==
    CASE text = "{}" -> [ok |-> TRUE, value |-> EmptyProps]
      [] text = "{\"id\":\"99\"}" -> [ok |-> TRUE, value |-> [id |-> Txt("99")]]
      [] text = "{\"message\":\"not allowed\"}" ->
            [ok |-> TRUE, value |-> [message |-> Txt("not allowed")]]
      [] text = "{\"message\":\"\"}" -> [ok |-> TRUE, value |-> [message |-> Txt("")]]
      [] text = "null" -> [ok |-> TRUE, value |-> Null]
      [] text \in {"", " "} ->
            [ok |-> FALSE,
             error |-> [instanceofError |-> TRUE, name |-> "SyntaxError",
                        message |-> "Unexpected end of JSON input"]]
      [] OTHER ->
            [ok |-> FALSE,
             error |-> [instanceofError |-> TRUE, name |-> "SyntaxError",
                        message |-> "Unexpected token '<', \"" \o text \o "\" is not valid JSON"]]

\* const text = await response.text(); if (!text) return {}; return JSON.parse(text)
ResponseBodyAlwaysParse(text) ==
    LET p == JSONParse(text)
    IN IF p.ok THEN [kind |-> "return", value |-> p.value]
       ELSE [kind |-> "throw", value |-> p.error]

ResponseBody(text) ==
    IF text = "" THEN [kind |-> "return", value |-> EmptyProps]
    ELSE LET p == JSONParse(text)
         IN IF p.ok THEN [kind |-> "return", value |-> p.value]
            ELSE [kind |-> "throw", value |-> p.error]

\* request(path, options) once getAccessToken has returned token: what is
\* handed to fetch, how the call ends for the response received, and the cache
\* it leaves.
request(token, config, options, response, cache) ==
    LET init == FetchInit(options, MergeHeaders(token, config, options))
        ok == response.status >= 200 /\ response.status <= 299
        parsed == JSONParse(response.text)
        errorData == IF parsed.ok THEN parsed.value ELSE Null
    IN IF ~ok
       THEN [init |-> init,
             outcome |-> [kind |-> "throw", value |-> ApiError(response.status, errorData)],
             cache |-> CacheAfterError(response.status, cache)]
       ELSE [init |-> init, outcome |-> ResponseBody(response.text), cache |-> cache]

\* What the caller passes as options.headers, the answers of the backend, the
\* token acquired and the cache at the time of the call.
RqHeaders ==
    {Obj(EmptyProps),
     Obj("X-Request-Id" :> "r1"),
     Obj("Authorization" :> "Basic abc"),
     Obj(("Content-Type" :> "text/plain") @@ ("x-zitadel-orgid" :> "org-2")),
     Obj("authorization" :> "Basic abc")}
RqOptions ==
    {"method" :> "GET", ("method" :> "DELETE") @@ ("headers" :> Undefined)}
    \cup {("method" :> "POST") @@ ("body" :> "{}") @@ ("headers" :> h) : h \in RqHeaders}
RqResponses ==
    [status : {200, 204, 401, 404},
     text : {"", " ", "{}", "{\"id\":\"99\"}", "{\"message\":\"not allowed\"}",
             "{\"message\":\"\"}", "null", "<html>"}]
RqTokens == {"tok-1", "tok-2"}
RqCaches == {Null, [token |-> "tok-1", expiresAt |-> 3600000]}

\* One call of request().
DoRequest ==
    /\ rq.out = NotRun
    /\ rq' = [rq EXCEPT !.out = request(rq.token, ctx.config, rq.options, rq.response, rq.cache)]
    /\ UNCHANGED <<idVars, raVars, regVars, clVars, dVars, jw>>

(* generateJwtAssertion *)

\* new SignJWT({}).setProtectedHeader({ alg: 'RS256', kid }).setIssuedAt(now)
\*   .setExpirationTime(now + 3600).setIssuer(userId).setSubject(userId)
\*   .setAudience(issuer),  with now = Math.floor(Date.now() / 1000); t is Date.now()
generateJwtAssertionMillis(config, t) ==
    [header |-> [alg |-> "RS256", kid |-> config.serviceAccountKeyId],
     payload |-> [iat |-> t, exp |-> t + 3600,
                  iss |-> config.serviceAccountUserId,
                  sub |-> config.serviceAccountUserId,
                  aud |-> config.issuer]]

generateJwtAssertion(config, t) ==
    LET nowSec == t \div 1000
    IN [header |-> [alg |-> "RS256", kid |-> config.serviceAccountKeyId],
        payload |-> [iat |-> nowSec, exp |-> nowSec + 3600,
                     iss |-> config.serviceAccountUserId,
                     sub |-> config.serviceAccountUserId,
                     aud |-> config.issuer]]

\* The instants (ms) at which an exchange may sign.
JwInstants == {0, 999, 1000, 1700, 3600000, 3600001}

\* getAccessToken finds no valid token: it builds the assertion and posts it to
\* the token endpoint.
SignAndPost ==
    /\ Len(jw.posted) < MaxSigned
    /\ jw' = [jw EXCEPT !.posted = Append(@, [at |-> jw.now,
                                             assertion |-> generateJwtAssertion(ctx.config, jw.now)])]
    /\ UNCHANGED <<idVars, raVars, regVars, clVars, dVars, rq>>

\* Time passes for the signer.
JwTick ==
    /\ \E t \in JwInstants : t > jw.now /\ jw' = [jw EXCEPT !.now = t]
    /\ UNCHANGED <<idVars, raVars, regVars, clVars, dVars, rq>>

-----------------------------------------------------------------------------

(* The handlers (tools/*.ts), as the steps each one takes *)

\* z.object({..}).parse(params): zid are the fields declared with zitadelId, in
\* the order of the schema; rest tells whether the schema constrains any other
\* field.
Parse(zid, rest) == [op |-> "parse", zid |-> zid, rest |-> rest]
\* await ctx.client.request(path, {method}); a path is literals and parameters.
Request(method, path) == [op |-> "request", method |-> method, path |-> path, catch |-> FALSE]
\* try { await ctx.client.request(..) } catch { }
RequestCatch(method, path) == [op |-> "request", method |-> method, path |-> path, catch |-> TRUE]
\* return textResponse(text ...)
Return(text) == [op |-> "return", text |-> text]
L(s) == [lit |-> s]
P(name) == [param |-> name]

\* users.ts
listUsersHandler ==
    << Parse(<<>>, TRUE),
       Request("POST", <<L("/v2/users")>>),
       Return("Found user(s)") >>
getUserHandler ==
    << Parse(<<"userId">>, FALSE),
       Request("GET", <<L("/v2/users/"), P("userId")>>),
       Return("User") >>
createUserHandler ==
    << Parse(<<>>, TRUE),
       Request("POST", <<L("/v2/users/human")>>),
       Return("User created successfully.") >>
deactivateUserHandler ==
    << Parse(<<"userId">>, FALSE),
       Request("POST", <<L("/v2/users/"), P("userId"), L("/deactivate")>>),
       Return("User has been deactivated.") >>
reactivateUserHandler ==
    << Parse(<<"userId">>, FALSE),
       Request("POST", <<L("/v2/users/"), P("userId"), L("/reactivate")>>),
       Return("User has been reactivated.") >>

\* projects.ts
listProjectsHandler ==
    << Parse(<<>>, TRUE),
       Request("POST", <<L("/management/v1/projects/_search")>>),
       Return("Found project(s)") >>
getProjectHandler ==
    << Parse(<<"projectId">>, FALSE),
       Request("GET", <<L("/management/v1/projects/"), P("projectId")>>),
       Return("Project") >>
createProjectHandler ==
    << Parse(<<>>, TRUE),
       Request("POST", <<L("/management/v1/projects")>>),
       Return("Project created successfully.") >>

\* applications.ts
listAppsHandler ==
    << Parse(<<"projectId">>, FALSE),
       Request("POST", <<L("/management/v1/projects/"), P("projectId"), L("/apps/_search")>>),
       Return("Found application(s)") >>
getAppHandler ==
    << Parse(<<"projectId", "appId">>, FALSE),
       Request("GET", <<L("/management/v1/projects/"), P("projectId"), L("/apps/"), P("appId")>>),
       Return("Application") >>
createOIDCAppHandler ==
    << Parse(<<"projectId">>, TRUE),
       Request("POST", <<L("/management/v1/projects/"), P("projectId"), L("/apps/oidc")>>),
       Return("OIDC Application created.") >>
updateAppHandler ==
    << Parse(<<"projectId", "appId">>, TRUE),
       Request("PUT", <<L("/management/v1/projects/"), P("projectId"), L("/apps/"),
                        P("appId"), L("/oidc")>>),
       Return("Application updated successfully.") >>

\* roles.ts.  resolveProjectId takes params.projectId || ctx.config.projectId
\* as it is; listUserGrantsHandler puts the project only into the body.
listProjectRolesHandler ==
    << [op |-> "resolveProjectId"],
       Request("POST", <<L("/management/v1/projects/"), P("projectId"), L("/roles/_search")>>),
       Return("Found role(s)") >>
createProjectRoleHandler ==
    << Parse(<<>>, TRUE),
       [op |-> "resolveProjectId"],
       Request("POST", <<L("/management/v1/projects/"), P("projectId"), L("/roles")>>),
       Return("Role created") >>
listUserGrantsHandler ==
    << Parse(<<"userId">>, FALSE),
       Request("POST", <<L("/management/v1/users/grants/_search")>>),
       Return("Found grant(s)") >>
createUserGrantHandler ==
    << Parse(<<"userId">>, TRUE),
       [op |-> "resolveProjectId"],
       Request("POST", <<L("/management/v1/projects/"), P("projectId"), L("/roles/_search")>>),
       [op |-> "checkRoles"],
       Request("POST", <<L("/management/v1/users/"), P("userId"), L("/grants")>>),
       Return("Grant created successfully.") >>
removeUserGrantHandler ==
    << Parse(<<"userId", "grantId">>, FALSE),
       Request("DELETE", <<L("/management/v1/users/"), P("userId"), L("/grants/"), P("grantId")>>),
       Return("Grant removed from user.") >>

\* service-accounts.ts
createServiceUserHandler ==
    << Parse(<<>>, TRUE),
       Request("POST", <<L("/management/v1/users/machine")>>),
       Return("Service account created successfully.") >>
createServiceUserKeyHandler ==
    << Parse(<<"userId">>, TRUE),
       Request("POST", <<L("/management/v1/users/"), P("userId"), L("/keys")>>),
       Return("Service account key created.") >>
listServiceUserKeysHandler ==
    << Parse(<<"userId">>, FALSE),
       Request("POST", <<L("/management/v1/users/"), P("userId"), L("/keys/_search")>>),
       Return("Found key(s)") >>

\* organizations.ts
getOrgHandler ==
    << Request("GET", <<L("/management/v1/orgs/me")>>),
       Return("Organization") >>
listOrgsHandler ==
    << Parse(<<>>, TRUE),
       Request("POST", <<L("/admin/v1/orgs/_search")>>),
       Return("Found organization(s)") >>

\* utility.ts: the handler reads the app of a project and formats its settings.
getAuthConfigHandler ==
    << Parse(<<"projectId", "appId">>, FALSE),
       Request("GET", <<L("/management/v1/projects/"), P("projectId"), L("/apps/"), P("appId")>>),
       Return("AUTH_ZITADEL_ISSUER") >>

\* portal.ts.  A select that finds the slug ends portalRegisterAppHandler with
\* an errorResponse and makes portalSetupFullAppHandler skip the insert.
portalRegisterAppHandler ==
    << Parse(<<>>, TRUE),
       [op |-> "getPortalDb"],
       [op |-> "select", existing |-> "error"],
       [op |-> "insert"],
       Return("App registered in portal.") >>
\* The lines portalSetupFullAppHandler pushes to results are kept without the
\* values they interpolate.
portalSetupFullAppHandler ==
    << Parse(<<>>, TRUE),
       [op |-> "projectOrCreate", ok |-> "1. Created project",
        using |-> "1. Using existing project"],
       Request("POST", <<L("/management/v1/projects/"), P("projectId"), L("/apps/oidc")>>)
          @@ [ok |-> "2. Created OIDC app"],
       RequestCatch("POST", <<L("/management/v1/projects/"), P("projectId"), L("/roles")>>)
          @@ [ok |-> "3. Created role", caught |-> "3. Role already exists (skipped)"],
       [op |-> "getPortalDb"],
       [op |-> "select", existing |-> "skip",
        found |-> "4. App slug already in portal DB (skipped)"],
       [op |-> "insert", ok |-> "4. Registered in portal database"],
       Return("Full app setup complete:") >>

\* The code behind each handler function.
HandlerCode ==
    [listUsersHandler |-> listUsersHandler, getUserHandler |-> getUserHandler,
     createUserHandler |-> createUserHandler,
     deactivateUserHandler |-> deactivateUserHandler,
     reactivateUserHandler |-> reactivateUserHandler,
     listProjectsHandler |-> listProjectsHandler, getProjectHandler |-> getProjectHandler,
     createProjectHandler |-> createProjectHandler,
     listAppsHandler |-> listAppsHandler, getAppHandler |-> getAppHandler,
     createOIDCAppHandler |-> createOIDCAppHandler, updateAppHandler |-> updateAppHandler,
     listProjectRolesHandler |-> listProjectRolesHandler,
     createProjectRoleHandler |-> createProjectRoleHandler,
     listUserGrantsHandler |-> listUserGrantsHandler,
     createUserGrantHandler |-> createUserGrantHandler,
     removeUserGrantHandler |-> removeUserGrantHandler,
     createServiceUserHandler |-> createServiceUserHandler,
     createServiceUserKeyHandler |-> createServiceUserKeyHandler,
     listServiceUserKeysHandler |-> listServiceUserKeysHandler,
     getOrgHandler |-> getOrgHandler, listOrgsHandler |-> listOrgsHandler,
     getAuthConfigHandler |-> getAuthConfigHandler,
     portalRegisterAppHandler |-> portalRegisterAppHandler,
     portalSetupFullAppHandler |-> portalSetupFullAppHandler]

-----------------------------------------------------------------------------

(* The tool dispatcher (index.ts) and the run of a handler *)

MaxCalls == 2       \* tool calls in one behaviour

textResponse(text) ==
    [content |-> [t |-> "array", v |-> <<[type |-> "text", text |-> text]>>], isError |-> Undefined]
errorResponse(text) ==
    [content |-> [t |-> "array", v |-> <<[type |-> "text", text |-> text]>>], isError |-> Bool(TRUE)]

\* obj[key] of a JavaScript value
\* What every object literal inherits, among the names a caller may send.
ObjectPrototype ==
    ("constructor" :> [t |-> "function", name |-> "Object"]) @@
    ("toString" :> [t |-> "function", name |-> "Object.prototype.toString"]) @@
    ("__proto__" :> [t |-> "object", name |-> "Object.prototype"])

\* handlers[toolName]: handlers is the object literal getHandlers built.
Lookup(handlers, toolName) ==
    IF toolName \in DOMAIN handlers
    THEN [t |-> "function", name |-> handlers[toolName]]
    ELSE IF toolName \in DOMAIN ObjectPrototype
    THEN ObjectPrototype[toolName]
    ELSE Undefined

\* { content: [{ type: 'text', text: `Unknown tool: ${toolName}` }], isError: true }
UnknownTool(toolName) ==
    [content |-> [t |-> "array", v |-> <<[type |-> "text", text |-> "Unknown tool: " \o toolName]>>],
     isError |-> Bool(TRUE)]

\* { content: result.content, isError: result.isError || false }
ResultOf(result) ==
    [content |-> Get(result, "content"),
     isError |-> Or(Get(result, "isError"), Bool(FALSE))]

\* catch (error): `Error: ${error instanceof Error ? error.message : String(error)}`
CatchErrorUnflagged(error) ==
    [content |-> [t |-> "array", v |-> <<[type |-> "text", text |-> "Error: " \o
                     (IF error.instanceofError THEN error.message ELSE error.value)]>>],
     isError |-> Bool(FALSE)]
\* handleMCPError (utils/logger.ts): the MCP error made of a thrown value.
handleMCPError(error) ==
    IF error.instanceofError /\ error.name = "ValidationError"
    THEN [code |-> "InvalidParams",
          message |-> "Invalid parameter" \o
                      (IF Falsy(error.field) THEN "" ELSE " '" \o error.field.txt \o "'")
                      \o ": " \o error.message]
    ELSE IF error.instanceofError /\ error.name = "ZitadelAPIError"
    THEN CASE error.statusCode = 404 ->
                [code |-> "InvalidParams", message |-> "Resource not found in Zitadel"]
           [] error.statusCode = 409 ->
                [code |-> "InvalidParams", message |-> "Conflict: " \o error.message]
           [] error.statusCode = 429 ->
                [code |-> "InternalError",
                 message |-> "Rate limit exceeded. Please try again later."]
           [] OTHER ->
                [code |-> "InternalError",
                 message |-> "Zitadel API error: " \o error.message]
    ELSE [code |-> "InternalError",
          message |-> IF error.instanceofError THEN error.message
                      ELSE "Unknown error occurred"]

CatchError(error) ==
    [content |-> [t |-> "array", v |-> <<[type |-> "text", text |-> "Error: " \o
                     (IF error.instanceofError THEN error.message ELSE error.value)]>>],
     isError |-> Bool(TRUE)]

IdParams == {"userId", "projectId", "appId", "grantId"}

\* A call before the first one.  Of a call: rawArgs the arguments (restOk tells
\* whether the fields other than the identifiers satisfy the handler's schema),
\* handler what handlers[toolName] gave, invoked whether a function was called
\* as the handler, resp the failed response its latest rejected request received,
\* roles the role keys its lookup returned, ip the step the handler is at, input the identifiers it
\* holds with where each came from, requests the client.request calls it made,
\* last the body of the latest response, db the portal connection, pending
\* what waits for the finally block, thrown the error the catch received,
\* results the lines portalSetupFullAppHandler has pushed, queries the
\* statements sent over the portal connection, each with the value bound to
\* its slug and the rows it returned.
IdleCall ==
    [pc |-> "idle", n |-> 0, toolName |-> "", 
     rawArgs |-> [userId |-> Undefined, projectId |-> Undefined, appId |-> Undefined,
                  grantId |-> Undefined, restOk |-> TRUE, roleKeys |-> <<>>],
     handler |-> Undefined, invoked |-> FALSE, ip |-> 0,
     input |-> [p \in IdParams |-> Null],
     requests |-> <<>>, tokenCalls |-> 0, last |-> Null, resp |-> Null, roles |-> Null,
     db |-> "none", pending |-> Null, thrown |-> Null, response |-> Null,
     results |-> <<>>, queries |-> <<>>]

Respond(c, response) == [c EXCEPT !.pc = "done", !.response = response]

\* The handler throws: a finally block closes the connection first; then the
\* dispatcher's catch answers.
ThrowNoFinally(c, error) == [Respond(c, CatchError(error)) EXCEPT !.thrown = error]

Throw(c, error) ==
    IF c.db = "open"
    THEN [c EXCEPT !.pc = "closing", !.pending = [kind |-> "throw", error |-> error]]
    ELSE [Respond(c, CatchError(error)) EXCEPT !.thrown = error]

\* The handler returns a result.
Finish(c, result) ==
    IF c.db = "open"
    THEN [c EXCEPT !.pc = "closing", !.pending = [kind |-> "return", result |-> result]]
    ELSE Respond(c, ResultOf(result))

\* The issues of the zitadelId fields of a schema, in order.
RECURSIVE ZidIssues(_, _, _)
ZidIssues(zid, args, k) ==
    IF k > Len(zid) THEN <<>>
    ELSE LET r == zitadelId(zid[k], args[zid[k]])
         IN (IF r.ok THEN <<>> ELSE r.issues) \o ZidIssues(zid, args, k + 1)

\* The message of a ZodError lists the messages of its issues.
RECURSIVE ZodMessage(_)
ZodMessage(issues) ==
    IF Len(issues) = 1 THEN issues[1]
    ELSE issues[1] \o "; " \o ZodMessage(Tail(issues))

\* `/a/${x}/b`: a path keeps, for each interpolated segment, where it came from.
BuildPath(path, input) ==
    [i \in 1..Len(path) |->
        IF "param" \in DOMAIN path[i] THEN input[path[i].param] ELSE path[i]]

\* array.join(sep)
RECURSIVE Join(_, _)
Join(array, sep) ==
    IF array = <<>> THEN ""
    ELSE IF Len(array) = 1 THEN array[1]
    ELSE array[1] \o sep \o Join(Tail(array), sep)

\* input.roleKeys.filter(r => !existingRoles.includes(r))
MissingRolesFirstOnly(roleKeys, existingRoles) ==
    IF InSeq(roleKeys[1], existingRoles) THEN <<>> ELSE <<roleKeys[1]>>

MissingRoles(roleKeys, existingRoles) ==
    SelectSeq(roleKeys, LAMBDA r : ~InSeq(r, existingRoles))

\* results.push(..) of the step ins, where the step has a line for the case.
Note(c, ins, case) ==
    IF case \in DOMAIN ins THEN [c EXCEPT !.results = Append(@, ins[case])] ELSE c

\* The handler runs from step c.ip to its next await or to its end.
RECURSIVE Exec(_, _)
Exec(c, cfg) ==
    LET ins == HandlerCode[c.handler.name][c.ip]
        next == [c EXCEPT !.ip = @ + 1]
        projectId == Or(c.rawArgs.projectId, cfg.projectId)
        withProject ==
            [next EXCEPT !.input.projectId =
                [seg |-> projectId.v,
                 from |-> IF Falsy(c.rawArgs.projectId) THEN "config" ELSE "params"]]
    IN CASE ins.op = "parse" ->
              LET issues == ZidIssues(ins.zid, c.rawArgs, 1) \o
                            (IF ins.rest /\ ~c.rawArgs.restOk
                             THEN <<"Invalid input">> ELSE <<>>)
              IN IF issues = <<>>
                 THEN Exec([next EXCEPT !.input =
                              [p \in IdParams |->
                                  IF InSeq(p, ins.zid)
                                  THEN [seg |-> c.rawArgs[p].v, from |-> "params"]
                                  ELSE @[p]]], cfg)
                 ELSE Throw(c, Err(ZodMessage(issues)))
         [] ins.op = "resolveProjectId" ->
              IF Falsy(projectId)
              THEN Throw(c, Err("projectId is required - either pass it as a parameter or set ZITADEL_PROJECT_ID"))
              ELSE Exec(withProject, cfg)
         [] ins.op = "projectOrCreate" ->
              IF Falsy(projectId)
              THEN [c EXCEPT !.pc = "awaiting",
                             !.requests = Append(@, [method |-> "POST",
                                               path |-> <<L("/management/v1/projects")>>])]
              ELSE Exec(Note(withProject, ins, "using"), cfg)
         [] ins.op = "request" ->
              [c EXCEPT !.pc = "awaiting",
                        !.requests = Append(@, [method |-> ins.method,
                                                path |-> BuildPath(ins.path, c.input)])]
         [] ins.op = "checkRoles" ->
              LET existingRoles == IF Falsy(c.last.result) THEN <<>> ELSE c.last.result.v
                  missingRoles == MissingRoles(c.rawArgs.roleKeys, existingRoles)
              IN IF Len(missingRoles) > 0
                 THEN Finish([c EXCEPT !.roles = [t |-> "array", v |-> existingRoles]],
                         errorResponse(
                            "Cannot grant access: role(s) not found in project "
                            \o Join(c.input.projectId.seg, "") \o ": "
                            \o Join(missingRoles, ", ") \o "\nAvailable roles: "
                            \o Or(Txt(Join(existingRoles, ", ")), Txt("none")).txt
                            \o "\n\nCreate the missing roles first with zitadel_create_project_role."))
                 ELSE Exec([next EXCEPT !.roles = [t |-> "array", v |-> existingRoles]], cfg)
         [] ins.op = "getPortalDb" ->
              IF Falsy(cfg.portalDatabaseUrl)
              THEN Throw(c, Err("PORTAL_DATABASE_URL is not configured"))
              ELSE Exec([next EXCEPT !.db = "open"], cfg)
         [] ins.op \in {"select", "insert"} ->
              [c EXCEPT !.pc = "query",
                        !.queries = Append(@, [sql |-> ins.op, slug |-> "input.slug",
                                                rows |-> Undefined])]
         [] ins.op = "return" ->
              Finish(c, textResponse(IF c.results = <<>> THEN ins.text
                                     ELSE ins.text \o "\n\n" \o Join(c.results, "\n")))

\* await handler(rawArgs, ctx), for whatever handlers[toolName] gave.
Invoke(c, cfg) ==
    CASE c.handler.t = "object" ->
            Throw(c, Err("handler is not a function"))
      [] c.handler.name = "Object" ->
            Respond([c EXCEPT !.invoked = TRUE], ResultOf(c.rawArgs))
      [] c.handler.name = "Object.prototype.toString" ->
            Respond([c EXCEPT !.invoked = TRUE], ResultOf(Txt("[object Undefined]")))
      [] OTHER ->
            Exec([c EXCEPT !.invoked = TRUE, !.ip = 1], cfg)

\* The CallToolRequestSchema handler, up to the handler's first await.
CallToolHandler(c, handlers, cfg) ==
    LET handler == Lookup(handlers, c.toolName)
    IN IF Falsy(handler)
       THEN Respond(c, UnknownTool(c.toolName))
       ELSE Invoke([c EXCEPT !.handler = handler], cfg)

\* Every handler there is, the portal ones included.
AllHandlers == getHandlers(loadConfig(Env(Undefined, Txt("postgres://portal"))), Modules).ret

\* The names a caller sends: every tool, a name nobody registered, and names
\* every JavaScript object answers to.
ToolNames == DOMAIN AllHandlers \cup {"zitadel_unknown"} \cup DOMAIN ObjectPrototype

\* An identifier argument: absent, well-formed, and one that walks out of its
\* path segment; and the empty one where the handler tests the argument with ||.
IdArgValues == {Undefined, Str(<<"4", "2">>), Str(<<".", ".", "/", "x">>)}

\* The identifier parameters a handler reads.
Reads(code) ==
    UNION {IF code[i].op = "parse" THEN {code[i].zid[k] : k \in 1..Len(code[i].zid)}
           ELSE IF code[i].op \in {"resolveProjectId", "projectOrCreate"} THEN {"projectId"}
           ELSE {} : i \in 1..Len(code)}

\* roleKeys as a caller sends them (valid ones; restOk tells of the others), and
\* response.result of the role search, as its keys.
RoleKeyArgs == {<<"viewer", "admin">>, <<"ghost", "admin", "nobody">>}
RoleResults == {Undefined, [t |-> "array", v |-> <<"admin">>],
                [t |-> "array", v |-> <<"admin", "viewer">>]}

\* The arguments tried with a tool: what its handler reads varies.
ArgsFor == [toolName \in ToolNames |->
    LET known == toolName \in DOMAIN AllHandlers
        code == HandlerCode[AllHandlers[toolName]]
        Vals(p) == IF known /\ p \in Reads(code)
                   THEN IdArgValues \cup
                        (IF p = "projectId" /\ \E i \in 1..Len(code) :
                               code[i].op \in {"resolveProjectId", "projectOrCreate"}
                         THEN {Str(<<>>)} ELSE {})
                   ELSE {Undefined}
        rests == IF known /\ \E i \in 1..Len(code) : code[i].op = "parse" /\ code[i].rest
                 THEN BOOLEAN ELSE {TRUE}
        roleKeys == IF known /\ \E i \in 1..Len(code) : code[i].op = "checkRoles"
                    THEN RoleKeyArgs ELSE {<<>>}
    IN {a \in [userId : Vals("userId"), projectId : Vals("projectId"),
               appId : Vals("appId"), grantId : Vals("grantId"), restOk : rests,
               roleKeys : roleKeys] :
           a.restOk \/ a.roleKeys \in {<<>>, <<"viewer", "admin">>}}]

\* ZITADEL_PROJECT_ID as the operator may have set it.
ProjectEnvValues == {Undefined, Str(<<"7", "7">>)}

dFrame == <<idVars, raVars, regVars, req, nStarted, post401, ctx, rqVars>>

\* A tools/call request arrives; the handler runs to its first await.
CallTool ==
    /\ call.pc \in {"idle", "done"}
    /\ nCalls < MaxCalls
    /\ nCalls' = nCalls + 1
    /\ prevFailed' = (prevFailed \/ (call.pc = "done" /\ call.response.isError = Bool(TRUE)))
    /\ LET handlers == getHandlers(ctx.config, Modules).ret
       IN \E toolName \in ToolNames :
             \E rawArgs \in ArgsFor[toolName] :
                call' = CallToolHandler(
                           [IdleCall EXCEPT !.n = nCalls + 1, !.toolName = toolName,
                                            !.rawArgs = rawArgs],
                           handlers, ctx.config)
    /\ UNCHANGED <<now, keyOk, cachedToken, dFrame>>

\* The cache as getAccessToken leaves it when it returns a token for this call.
AfterToken ==
    IF CacheValid(cachedToken, now) THEN cachedToken
    ELSE StoreToken([access_token |-> call.n, expires_in |-> Undefined], now)

\* The bodies a 2xx response may carry, as far as the handlers look at them.
Bodies ==
    IF HandlerCode[call.handler.name][call.ip + 1].op = "checkRoles"
    THEN {[id |-> Str(<<"9", "9">>), result |-> x] : x \in RoleResults}
    ELSE {[id |-> Str(<<"9", "9">>), result |-> Undefined]}

\* client.request resolves: a token was at hand or was obtained, and the backend
\* answered 2xx.  The handler runs on.
RequestResolves ==
    /\ call.pc = "awaiting"
    /\ CacheValid(cachedToken, now) \/ keyOk
    /\ cachedToken' = AfterToken
    /\ \E body \in Bodies :
          LET c == Note([call EXCEPT !.last = body, !.ip = @ + 1,
                                     !.tokenCalls = IF CacheValid(cachedToken, now)
                                                    THEN @ ELSE @ + 1],
                        HandlerCode[call.handler.name][call.ip], "ok")
          IN call' = IF HandlerCode[call.handler.name][call.ip].op = "projectOrCreate"
                     THEN Exec([c EXCEPT !.input.projectId =
                                   [seg |-> body.id.v, from |-> "response"]], ctx.config)
                     ELSE Exec(c, ctx.config)
    /\ UNCHANGED <<now, keyOk, nCalls, prevFailed, dFrame>>

\* The statuses of the backend's failed answers to a tool's request: the three
\* handleMCPError tells apart, and 401.
ToolErrorStatuses == {401, 404, 409, 429}

\* The ways client.request rejects, each with the cache it leaves: signing
\* fails, the token endpoint refuses, the backend answers with an error status
\* (with or without a message in its body), or fetch rejects with a value that
\* is not an Error.
Rejections ==
    LET valid == CacheValid(cachedToken, now)
    IN  {[error |-> Err("Invalid key"), cache |-> cachedToken, tokenCalls |-> 0,
          resp |-> Null] :
            x \in {1 : y \in IF ~valid /\ ~keyOk THEN {1} ELSE {}}}
        \cup
        {[error |-> TokenError(st, "invalid_grant"),
          cache |-> cachedToken, tokenCalls |-> 1,
          resp |-> [from |-> "token", status |-> st, body |-> "invalid_grant"]] :
            st \in IF ~valid /\ keyOk THEN TokenErrorStatuses ELSE {}}
        \cup
        {[error |-> ApiError(st, errorData),
          cache |-> CacheAfterError(st, AfterToken),
          tokenCalls |-> IF valid THEN 0 ELSE 1,
          resp |-> [from |-> "api", status |-> st, body |-> errorData]] :
            <<st, errorData>> \in IF valid \/ keyOk
                                  THEN ToolErrorStatuses \X ErrorBodies
                                  ELSE {}}
        \cup
        {[error |-> NonError("socket closed"), cache |-> AfterToken,
          tokenCalls |-> IF valid THEN 0 ELSE 1, resp |-> Null] :
            x \in {1 : y \in IF valid \/ keyOk THEN {1} ELSE {}}}

\* client.request rejects.  The handler's own catch, where it has one, swallows
\* the error; otherwise the handler throws it on.
RequestRejects ==
    /\ call.pc = "awaiting"
    /\ \E r \in Rejections :
          LET ins == HandlerCode[call.handler.name][call.ip]
              c == [call EXCEPT !.tokenCalls = @ + r.tokenCalls, !.resp = r.resp]
          IN /\ cachedToken' = r.cache
             /\ call' = IF ins.op = "request" /\ ins.catch
                        THEN Exec(Note([c EXCEPT !.ip = @ + 1], ins, "caught"), ctx.config)
                        ELSE Throw(c, r.error)
    /\ UNCHANGED <<now, keyOk, nCalls, prevFailed, dFrame>>

\* A query on the portal database resolves; the select finds the slug or not.
QueryResolves ==
    /\ call.pc = "query"
    /\ LET ins == HandlerCode[call.handler.name][call.ip]
           Got(n) == [call EXCEPT !.queries[Len(call.queries)].rows = Num(n)]
       IN IF ins.op = "select"
          THEN \E found \in BOOLEAN :
                  call' = IF ~found THEN Exec([Got(0) EXCEPT !.ip = @ + 1], ctx.config)
                          ELSE IF ins.existing = "skip"
                          THEN Exec(Note([Got(1) EXCEPT !.ip = @ + 2], ins, "found"), ctx.config)
                          ELSE Finish(Got(1), errorResponse("Slug already exists in the portal database."))
          ELSE call' = Exec(Note([Got(1) EXCEPT !.ip = @ + 1], ins, "ok"), ctx.config)
    /\ UNCHANGED <<now, keyOk, cachedToken, nCalls, prevFailed, dFrame>>

\* A query rejects.
QueryRejects ==
    /\ call.pc = "query"
    /\ call' = Throw([call EXCEPT !.queries[Len(call.queries)].rows = [t |-> "rejected"]],
                     Err("connection refused"))
    /\ UNCHANGED <<now, keyOk, cachedToken, nCalls, prevFailed, dFrame>>

\* finally { await sql.end() }: then the return or the throw takes effect.
ConnectionEndsHandlerHangs ==
    /\ call.pc = "closing"
    /\ call' = [call EXCEPT !.db = "closed"]
    /\ UNCHANGED <<now, keyOk, cachedToken, nCalls, prevFailed, dFrame>>

ConnectionEnds ==
    /\ call.pc = "closing"
    /\ LET c == [call EXCEPT !.db = "closed", !.pending = Null]
       IN call' = IF call.pending.kind = "return"
                  THEN Finish(c, call.pending.result)
                  ELSE Throw(c, call.pending.error)
    /\ UNCHANGED <<now, keyOk, cachedToken, nCalls, prevFailed, dFrame>>

(* The log records of a tool call (utils/logger.ts, index.ts, tools/*.ts) *)

LogLevel == [DEBUG |-> 0, INFO |-> 1, WARN |-> 2, ERROR |-> 3]

\* logger.debug / info / warn / error(message, meta) of a Logger constructed
\* with logLevel: the record written to stderr, if any.  The timestamp
\* formatMessage puts in front is left out.
Log(logLevel, level, message, meta) ==
    IF LogLevel[level] >= LogLevel[logLevel]
    THEN <<[level |-> level, message |-> message, meta |-> meta]>>
    ELSE <<>>

\* What the handler of a tool logs between parsing its input and its request.
HandlerLogs(logLevel, toolName, input) ==
    CASE toolName = "zitadel_create_user" ->
            Log(logLevel, "INFO", "Creating user", [email |-> input.email])
      [] toolName = "zitadel_create_service_user" ->
            Log(logLevel, "INFO", "Creating service user", [userName |-> input.userName])
      [] toolName = "zitadel_create_oidc_app" ->
            Log(logLevel, "INFO", "Creating OIDC app",
                [name |-> input.name, projectId |-> input.projectId])
      [] OTHER -> <<>>

\* The records of one tools/call whose arguments pass the schema and whose
\* request succeeds: the dispatcher's, then the handler's.
ToolCallLogs(logLevel, toolName, rawArgs) ==
    Log(logLevel, "DEBUG", "Tool call: " \o toolName, [args |-> redactArgs(rawArgs).safe])
    \o HandlerLogs(logLevel, toolName, rawArgs)

\* LOG_LEVEL, and valid arguments of three tools that take redacted fields.
LogLevels == {"DEBUG", "INFO", "ERROR"}
LogArgs ==
    [zitadel_create_user |->
        [email : {Txt("ann@example.com"), Txt("bob@example.org")},
         firstName : {Txt("Ann"), Txt("Bob")}, lastName : {Txt("Lee")}],
     zitadel_create_service_user |->
        [userName : {Txt("svc-deploy"), Txt("svc-ci")},
         name : {Txt("Deploy bot"), Txt("CI bot")}],
     zitadel_create_oidc_app |->
        [projectId : {Txt("42")}, name : {Txt("Portal"), Txt("Shop")},
         redirectUris : {[t |-> "array", v |-> <<"https://a.example/cb">>],
                         [t |-> "array", v |-> <<"https://b.example/cb">>]}]]
LogTools == DOMAIN LogArgs
LogObjects == UNION {LogArgs[n] : n \in LogTools}

\* One of the two calls is served.
ServeCall ==
    /\ \E i \in {1, 2} \ lg.served :
          lg' = [lg EXCEPT !.served = @ \cup {i},
                           !.records[i] = ToolCallLogs(lg.logLevel, lg.toolName, lg.args[i])]
    /\ UNCHANGED <<raArgs, raArgs0, raSafe, idVars, regVars, clVars, dVars, rqVars>>

DNext ==
    \/ CallTool
    \/ RequestResolves
    \/ RequestRejects
    \/ QueryResolves
    \/ QueryRejects
    \/ ConnectionEnds

-----------------------------------------------------------------------------

\* The state after construction.  Each specification runs one part of the
\* program from every input the model gives it and leaves the other parts as
\* they are before their first use.
Init(part) ==
    /\ idLabel \in (IF part = "validator" THEN IdLabels ELSE {"ID"})
    /\ idInput \in (IF part = "validator"
                    THEN {Str(s) : s \in SeqsUpTo(IdAlphabet, MaxIdLen)} \cup {Undefined, Num(7)}
                    ELSE {Undefined})
    /\ idResult = NotRun
    /\ raArgs \in (IF part = "redaction" THEN RaObjects ELSE {<<>>})
    /\ raArgs0 = raArgs
    /\ raSafe = NotRun
    /\ lg \in (IF part = "logs"
               THEN {[logLevel |-> v, toolName |-> n, args |-> <<a, b>>, served |-> {},
                      records |-> <<<<>>, <<>>>>] :
                        <<v, n, a, b>> \in {x \in LogLevels \X LogTools \X LogObjects \X LogObjects :
                                               x[3] \in LogArgs[x[2]] /\ x[4] \in LogArgs[x[2]]}}
               ELSE {[logLevel |-> "INFO", toolName |-> "", args |-> <<EmptyProps, EmptyProps>>,
                      served |-> {}, records |-> <<<<>>, <<>>>>]})
    /\ mods = (IF part = "registry" THEN Modules ELSE <<>>)
    /\ regLog = <<>>
    /\ now = 0
    /\ keyOk \in (IF part \in {"client", "dispatcher", "portal"} THEN BOOLEAN ELSE {TRUE})
    /\ cachedToken = Null
    /\ req = [r \in Slots |-> IdleReq]
    /\ nStarted = 0
    /\ post401 = "none"
    /\ ctx \in (IF part = "dispatcher"
                THEN {[config |-> loadConfig(Env(p, d))] :
                         p \in ProjectEnvValues, d \in PortalEnvValues}
                ELSE IF part = "portal"
                THEN {[config |-> loadConfig(Env(Undefined, Txt("postgres://portal")))]}
                ELSE {[config |-> loadConfig(Env(Undefined, Undefined))]})
    /\ call = IdleCall
    /\ nCalls = 0
    /\ prevFailed = FALSE
    /\ rq \in (IF part = "request"
               THEN {[token |-> k, options |-> o, response |-> x,
                      cache |-> c, out |-> NotRun] :
                        k \in RqTokens, o \in RqOptions, x \in RqResponses, c \in RqCaches}
               ELSE {[out |-> NotRun]})
    /\ jw = [now |-> 0, posted |-> <<>>]

SpecId == Init("validator") /\ [][ParseId]_vars

SpecRedact == Init("redaction") /\ [][Redact]_vars

SpecClient == Init("client") /\ [][ClNext]_vars

SpecRegistry == Init("registry") /\ [][CallGetTools \/ CallGetHandlers \/ CallListTools]_vars

SpecDispatch == Init("dispatcher") /\ [][DNext]_vars

SpecRequest == Init("request") /\ [][DoRequest \/ SignAndPost \/ JwTick]_vars

SpecLogs == Init("logs") /\ [][ServeCall]_vars

\* The dispatcher when every I/O operation a handler awaits settles: the
\* request (token exchange and backend call), the query, the end of the
\* connection.  The server is configured with the portal database and without a
\* default project, so that every tool is registered and the full setup goes
\* through each kind of I/O.
SpecDispatchLive ==
    /\ Init("portal")
    /\ [][DNext]_vars
    /\ WF_vars(RequestResolves \/ RequestRejects)
    /\ WF_vars(QueryResolves \/ QueryRejects)
    /\ WF_vars(ConnectionEnds)

\* C4: zitadelId(label) accepts a string iff it is non-empty and every
\* character is in [A-Za-z0-9_-]; the empty string is rejected with the message
\* '<label> is required', every other rejected string with '<label> must be
\* alphanumeric'; an accepted value is returned unchanged.

C4_IdValidator ==
    (idResult # NotRun /\ IsStr(idInput)) =>
        LET s == idInput.v
            good == Len(s) >= 1
                    /\ \A i \in 1..Len(s) :
                          s[i] \in Lower \cup Upper \cup Digit \cup {"_", "-"}
        IN /\ idResult.ok <=> good
           /\ idResult.ok => idResult.value = idInput
           /\ (s = <<>>) => InSeq(idLabel \o " is required", idResult.issues)
           /\ (s # <<>> /\ ~good) =>
                 idResult.issues = <<idLabel \o " must be alphanumeric">>

C4_Witness ==
    /\ idResult # NotRun
    /\ idInput = Str(<<"a", "/">>)
    /\ ~idResult.ok

\* C8: redactArgs returns a mapping with exactly the keys of its input; a key
\* of the redaction set maps to '[REDACTED]', every other key to the input's
\* value; the empty mapping yields the empty mapping; the input is not modified.
C8_Redaction ==
    (raSafe # NotRun) =>
        /\ DOMAIN raSafe = DOMAIN raArgs0
        /\ \A k \in DOMAIN raArgs0 :
              IF k \in {"email", "firstName", "lastName", "userName", "redirectUris",
                        "postLogoutRedirectUris", "appUrl", "iconUrl"}
              THEN raSafe[k] = Txt("[REDACTED]")
              ELSE raSafe[k] = raArgs0[k]
        /\ (raArgs0 = <<>>) => (raSafe = <<>>)
        /\ raArgs = raArgs0

C8_Witness ==
    /\ raSafe # NotRun
    /\ DOMAIN raArgs0 = {"email", "userId"}
    /\ raArgs0["email"] = Txt("a@b.com")
    /\ raSafe["email"] = Txt("[REDACTED]")
    /\ raSafe["userId"] = Num(123)

Names(tools) == [i \in 1..Len(tools) |-> tools[i].name]

PortalNames == <<"portal_register_app", "portal_setup_full_app">>

Configured(entry) == entry.config.portalDatabaseUrl # Undefined

\* C9: what getTools and getHandlers return depends only on whether
\* config.portalDatabaseUrl is set, whatever was called before: with it set the
\* result is the base operations followed by exactly portal_register_app and
\* portal_setup_full_app, without it the same base operations and no portal one.
C9_RegistryDeterminism ==
    \A i, j \in 1..Len(regLog) :
        LET a == regLog[i]
            b == regLog[j]
        IN (a.fn = b.fn) =>
            /\ (Configured(a) = Configured(b)) => a.ret = b.ret
            /\ (a.fn = "getTools" /\ Configured(a) /\ ~Configured(b)) =>
                  /\ Len(a.ret) = Len(b.ret) + 2
                  /\ SubSeq(a.ret, 1, Len(b.ret)) = b.ret
                  /\ Names(SubSeq(a.ret, Len(b.ret) + 1, Len(a.ret))) = PortalNames
                  /\ \A k \in 1..Len(b.ret) : ~InSeq(b.ret[k].name, PortalNames)
            /\ (a.fn = "getHandlers" /\ Configured(a) /\ ~Configured(b)) =>
                  /\ DOMAIN a.ret = DOMAIN b.ret \cup {"portal_register_app", "portal_setup_full_app"}
                  /\ DOMAIN b.ret \cap {"portal_register_app", "portal_setup_full_app"} = {}
                  /\ \A k \in DOMAIN b.ret : a.ret[k] = b.ret[k]

C9_Witness ==
    /\ Len(regLog) >= 3
    /\ regLog[1].fn = "getTools" /\ Configured(regLog[1])
    /\ regLog[2].fn = "getTools" /\ ~Configured(regLog[2])
    /\ regLog[2].config.portalDatabaseUrl = Undefined
    /\ regLog[3].fn = "getTools" /\ Configured(regLog[3])
    /\ Len(regLog[1].ret) = 25 /\ Len(regLog[2].ret) = 23

\* C10: for both values of the portal flag the names getTools lists are pairwise
\* distinct and are exactly the keys of the mapping getHandlers returns.
C10_NamesAreKeys ==
    \A i, j \in 1..Len(regLog) :
        LET a == regLog[i]
            b == regLog[j]
        IN (a.fn = "getTools" /\ b.fn = "getHandlers" /\ Configured(a) = Configured(b)) =>
            /\ \A m, n \in 1..Len(a.ret) : (m # n) => a.ret[m].name # a.ret[n].name
            /\ {a.ret[m].name : m \in 1..Len(a.ret)} = DOMAIN b.ret

C10_Witness ==
    /\ Len(regLog) >= 2
    /\ regLog[1].fn = "getTools" /\ Configured(regLog[1])
    /\ regLog[2].fn = "getHandlers" /\ Configured(regLog[2])
    /\ "portal_setup_full_app" \in DOMAIN regLog[2].ret

\* C11: a listing call answers one entry per registered operation, in registry
\* order; no entry has a _meta field and every other field (name, description,
\* inputSchema, annotations) is the registry's; the registry array is the same
\* after the call.
C11_ListingStripsMeta ==
    \A i \in 1..Len(regLog) :
        LET a == regLog[i]
        IN (a.fn = "listTools") =>
            /\ Len(a.ret) = Len(a.registry)
            /\ \A k \in 1..Len(a.ret) :
                  /\ "_meta" \notin DOMAIN a.ret[k]
                  /\ DOMAIN a.ret[k] = DOMAIN a.registry[k] \ {"_meta"}
                  /\ \A f \in {"name", "description", "inputSchema", "annotations"} :
                        /\ f \in DOMAIN a.ret[k]
                        /\ a.ret[k][f] = a.registry[k][f]
            /\ a.tools = a.registry
            /\ \A j \in 1..Len(regLog) :
                  (regLog[j].fn = "getTools" /\ Configured(regLog[j]) = Configured(a))
                      => regLog[j].ret = a.registry

C11_Witness ==
    /\ Len(regLog) >= 3
    /\ regLog[1].fn = "listTools" /\ Configured(regLog[1])
    /\ Len(regLog[1].ret) = 25
    /\ "_meta" \in DOMAIN regLog[1].registry[25]
    /\ regLog[1].ret[25].name = "portal_setup_full_app"
    /\ regLog[2].fn = "getTools" /\ Configured(regLog[2])
    /\ regLog[3].fn = "listTools" /\ ~Configured(regLog[3])
    /\ Len(regLog[3].ret) = 23

-----------------------------------------------------------------------------

(* The token cache: C1, C2, C5 (SpecClient) *)

\* Slot r starts an invocation in this step.
Starts(r) == req'[r].n # req[r].n

\* C1: every token acquisition returns the cached token, with no call of the
\* token endpoint, exactly when a token is cached and now < expiresAt - 60000;
\* in every other case (nothing cached, or now >= expiresAt - 60000, the
\* boundary included) it takes the exchange path: the assertion is built and,
\* unless building it throws, the token endpoint is called.
C1_CacheServedIffFresh ==
    [][\A r \in Slots : Starts(r) =>
          LET hit == cachedToken # Null /\ now < cachedToken.expiresAt - 60000
          IN /\ hit <=> req'[r].src = "cache"
             /\ hit => /\ req'[r].tok = cachedToken.token
                       /\ req'[r].tokenCalls = 0
                       /\ req'[r].pc = "fetching"
                       /\ cachedToken' = cachedToken
             /\ ~hit => /\ req'[r].src = "exchange"
                        /\ req'[r].pc = IF keyOk THEN "exchanging" ELSE "rejected"
                        /\ keyOk => req'[r].tokenCalls = 1]_vars

\* Invocation 1 cached token 1 at time 0 with expiresAt = 3600000 and nothing
\* has replaced it.  Invocation 2 was served it from the cache.  Invocation 3
\* started later, found it cached and is exchanging all the same: it started at
\* 3540000 or later.
C1_Witness ==
    /\ now = 3545000
    /\ cachedToken = [token |-> 1, expiresAt |-> 3600000]
    /\ \E q, r \in Slots :
          /\ req[q].n = 2 /\ req[q].src = "cache" /\ req[q].tok = 1
          /\ req[q].tokenCalls = 0
          /\ req[r].n = 3 /\ req[r].src = "exchange" /\ req[r].pc = "exchanging"

C5_ExpiryFromServer ==
    \A r \in Slots :
       (/\ req[r].xdata # Null
        /\ cachedToken # Null
        /\ cachedToken.token = req[r].xdata.access_token)
       => LET e == IF req[r].xdata.expires_in = Undefined
                   THEN 3600 ELSE req[r].xdata.expires_in.v
          IN cachedToken.expiresAt = req[r].xat + e * 1000

-----------------------------------------------------------------------------

(* The dispatcher and the handlers: C3, C6, C7 (SpecDispatch) *)

\* C3 as stated: every caller-supplied value a handler interpolates into a
\* request path has passed ^[A-Za-z0-9_-]+$ before the handler's first
\* client.request; no request path holds a caller-supplied segment outside the
\* pattern.
C3_PathSegmentsValidated ==
    \A i \in 1..Len(call.requests) :
       LET path == call.requests[i].path
       IN \A k \in 1..Len(path) :
             ("seg" \in DOMAIN path[k] /\ path[k].from = "params")
             => /\ Len(path[k].seg) >= 1
                /\ \A j \in 1..Len(path[k].seg) :
                      path[k].seg[j] \in Lower \cup Upper \cup Digit \cup {"_", "-"}

\* C6 as stated: a call whose name has no registered handler is answered with
\* isError = true and one text item naming the tool; nothing is raised, no
\* handler is invoked, no token exchange and no backend call is made.
C6_UnknownToolAnswer ==
    (call.n > 0 /\ call.toolName \notin DOMAIN getHandlers(ctx.config, Modules).ret)
    => /\ call.pc = "done"
       /\ call.response.isError = Bool(TRUE)
       /\ call.response.content =
             [t |-> "array",
              v |-> <<[type |-> "text", text |-> "Unknown tool: " \o call.toolName]>>]
       /\ call.thrown = Null
       /\ ~call.invoked
       /\ call.requests = <<>>
       /\ call.tokenCalls = 0

\* C7: whatever a handler raises (a validation error, a signing, token or
\* backend error, a value that is not an Error), the call is answered with
\* isError = true and the text "Error: " followed by the error's message (the
\* value itself when it is not an Error); every call that ended has a response.
C7_ErrorsContained ==
    /\ call.pc = "done" => call.response # Null
    /\ call.thrown # Null =>
          /\ call.pc = "done"
          /\ call.response.isError = Bool(TRUE)
          /\ call.response.content =
                [t |-> "array",
                 v |-> <<[type |-> "text",
                          text |-> "Error: " \o (IF call.thrown.instanceofError
                                                 THEN call.thrown.message
                                                 ELSE call.thrown.value)]>>]

\* After a call that was answered with an error, a second call was dispatched
\* to its handler, made a request, received a rejection that is not an Error,
\* and was answered.
C7_Witness ==
    /\ prevFailed
    /\ call.n = 2
    /\ call.pc = "done"
    /\ call.toolName \in DOMAIN getHandlers(ctx.config, Modules).ret
    /\ Len(call.requests) = 1
    /\ call.thrown = NonError("socket closed")
    /\ call.response.isError = Bool(TRUE)

-----------------------------------------------------------------------------

(* The calls one request() issues and what it throws: C12, C13 (SpecClient) *)

\* Slot r has received a non-success answer from the token endpoint ("token")
\* or from the backend ("api").
Refused(r, from) == req[r].resp # Null /\ req[r].resp.from = from

\* C12: when the token endpoint answers with a non-success status, the
\* acquisition throws an error whose message holds that status and the body of
\* the response; that request() has then called the token endpoint once and
\* the backend never, and does nothing more; the step leaves the token cache
\* as it was.  (A slot changes next when it starts another invocation.)
C12_TokenFailure ==
    [][/\ \A r \in Slots :
          (req'[r] # req[r] /\ req'[r].resp # Null /\ req'[r].resp.from = "token") =>
             /\ req[r].pc = "exchanging" /\ req'[r].n = req[r].n
             /\ req'[r].pc = "rejected"
             /\ req'[r].error.instanceofError
             /\ req'[r].error.message =
                   "Failed to get access token: " \o ToString(req'[r].resp.status)
                       \o " " \o req'[r].resp.body
             /\ req'[r].tokenCalls = 1 /\ req'[r].backendCalls = 0
             /\ cachedToken' = cachedToken
       /\ \A q \in Slots : (Refused(q, "token") /\ req'[q] # req[q]) => Starts(q)]_vars

C12_Witness ==
    /\ Refused("A", "token")
    /\ req["A"].error.message = "Failed to get access token: 400 invalid_grant"
    /\ req["A"].tokenCalls = 1 /\ req["A"].backendCalls = 0
    /\ req["B"].pc = "fetching" /\ req["B"].n < req["A"].n
    /\ cachedToken # Null /\ cachedToken.token = req["B"].tok

\* C13: one request() calls the token endpoint at most once and the backend at
\* most once, whatever the answers are: after a 401, another failed status or a
\* refused exchange the invocation is over; a call is only ever issued by the
\* start of the invocation (the backend call with a cached token, or the token
\* call) or by the arrival of its token (the backend call).
C13_NoRetry ==
    [][\A r \in Slots :
          /\ req'[r].tokenCalls <= 1 /\ req'[r].backendCalls <= 1
          /\ (req[r].pc = "rejected" /\ req'[r] # req[r]) => Starts(r)
          /\ ~Starts(r) =>
                 /\ req'[r].tokenCalls = req[r].tokenCalls
                 /\ (req'[r].backendCalls # req[r].backendCalls) =>
                        /\ req[r].pc = "exchanging" /\ req'[r].pc = "fetching"
                        /\ req[r].backendCalls = 0]_vars

C13_Witness ==
    /\ req["A"].pc = "rejected" /\ req["A"].resp # Null
    /\ req["A"].resp.from = "api" /\ req["A"].resp.status = 401
    /\ req["A"].tokenCalls = 1 /\ req["A"].backendCalls = 1
    /\ req["B"].pc = "rejected" /\ req["B"].resp # Null
    /\ req["B"].resp.from = "api" /\ req["B"].resp.status = 500
    /\ req["B"].tokenCalls = 0 /\ req["B"].backendCalls = 1
    /\ cachedToken = Null

\* C14 as stated: for every non-2xx answer of the backend request() throws a
\* typed API error (ZitadelAPIError) whose statusCode is the status of the
\* answer, so that a catcher reads the status from the error value.
C14_TypedApiError ==
    \A r \in Slots :
       Refused(r, "api") =>
          /\ req[r].error.name = "ZitadelAPIError"
          /\ "statusCode" \in DOMAIN req[r].error
          /\ req[r].error.statusCode = req[r].resp.status

-----------------------------------------------------------------------------

(* What a failure looks like to the tool caller: C15 (SpecDispatch) *)

\* The call was answered from the dispatcher's catch after the backend refused
\* a request of its handler.
BackendFailureSurfaced ==
    /\ call.pc = "done" /\ call.thrown # Null
    /\ call.resp # Null /\ call.resp.from = "api"
    /\ call.thrown = ApiError(call.resp.status, call.resp.body)

\* C15 as stated, for backend failures: the answer to the tool caller is in the
\* category of the failed response's status, 404 'not found', 409 'conflict',
\* 429 'rate limited, retry later', every other status the generic one: its
\* text is what handleMCPError makes of an API error with that status (with or
\* without the dispatcher's 'Error: ' in front).
C15_StatusCategories ==
    BackendFailureSurfaced =>
       \E prefix \in {"", "Error: "} :
          \E m \in {ErrorMessage(call.resp.status, call.resp.body),
                     ApiError(call.resp.status, call.resp.body).message} :
             call.response.content.v[1].text =
                prefix \o handleMCPError(ZitadelAPIError(m, call.resp.status)).message

-----------------------------------------------------------------------------

(* The answer and the headers of one request(): C16, C17 (SpecRequest) *)

\* request() has run on rq and the backend answered 2xx.
Answered2xx ==
    /\ rq.out # NotRun
    /\ rq.response.status \in 200..299

\* C16: for every 2xx answer request() returns the empty object when the body
\* is empty, and otherwise what JSON.parse makes of the body, whatever its
\* shape (an object without the expected fields, null): nothing is validated;
\* a body that is not JSON makes JSON.parse throw.  The token cache is as it
\* was.
C16_BodyNormalised ==
    Answered2xx =>
       /\ rq.out.cache = rq.cache
       /\ (rq.response.text = "") =>
             rq.out.outcome = [kind |-> "return", value |-> EmptyProps]
       /\ (rq.response.text = "{\"id\":\"99\"}") =>
             rq.out.outcome = [kind |-> "return", value |-> [id |-> Txt("99")]]
       /\ (rq.response.text = "{\"message\":\"not allowed\"}") =>
             rq.out.outcome = [kind |-> "return", value |-> [message |-> Txt("not allowed")]]
       /\ (rq.response.text = "null") =>
             rq.out.outcome = [kind |-> "return", value |-> Null]
       /\ (rq.response.text = "{}") =>
             rq.out.outcome = [kind |-> "return", value |-> EmptyProps]
       /\ (rq.response.text \in {" ", "<html>"}) =>
             /\ rq.out.outcome.kind = "throw"
             /\ rq.out.outcome.value.name = "SyntaxError"

C16_Witness ==
    /\ Answered2xx
    /\ rq.response = [status |-> 204, text |-> ""]
    /\ rq.out.outcome = [kind |-> "return", value |-> EmptyProps]
    /\ rq.cache # Null /\ rq.out.cache = rq.cache

\* The headers the caller supplied in options (none when options has no
\* headers or an undefined one).
CallerHeaders ==
    IF "headers" \in DOMAIN rq.options /\ rq.options["headers"] # Undefined
    THEN rq.options["headers"].props ELSE EmptyProps

\* C17: the headers handed to fetch are the three defaults (Authorization
\* 'Bearer ' + the token this call acquired, Content-Type application/json,
\* x-zitadel-orgid the configured organisation) merged with the caller's: a
\* name the caller supplies carries the caller's value, every other default is
\* kept, nothing else is sent; the headers entry of the caller's options does
\* not stand in for the merged headers, and the other options pass unchanged.
C17_HeadersMerged ==
    (rq.out # NotRun) =>
       LET sent == rq.out.init["headers"].props
       IN /\ DOMAIN sent =
                {"Authorization", "Content-Type", "x-zitadel-orgid"} \cup DOMAIN CallerHeaders
          /\ \A k \in DOMAIN CallerHeaders : sent[k] = CallerHeaders[k]
          /\ ("Authorization" \notin DOMAIN CallerHeaders) =>
                sent["Authorization"] = "Bearer " \o rq.token
          /\ ("Content-Type" \notin DOMAIN CallerHeaders) =>
                sent["Content-Type"] = "application/json"
          /\ ("x-zitadel-orgid" \notin DOMAIN CallerHeaders) =>
                sent["x-zitadel-orgid"] = "org-1"
          /\ DOMAIN rq.out.init = DOMAIN rq.options \cup {"headers"}
          /\ \A k \in DOMAIN rq.options \ {"headers"} : rq.out.init[k] = rq.options[k]

C17_Witness ==
    /\ rq.out # NotRun
    /\ rq.token = "tok-2" /\ rq.cache # Null /\ rq.cache.token = "tok-1"
    /\ CallerHeaders = ("Content-Type" :> "text/plain") @@ ("x-zitadel-orgid" :> "org-2")
    /\ rq.out.init["headers"] =
          Obj(("Authorization" :> "Bearer tok-2") @@ ("Content-Type" :> "text/plain")
              @@ ("x-zitadel-orgid" :> "org-2"))
    /\ rq.out.init["method"] = "POST"

-----------------------------------------------------------------------------

(* The signed assertion: C20 (SpecRequest) *)

\* C20: every assertion posted to the token endpoint was built for that
\* exchange: its header has alg RS256 and the configured key id, its claims have
\* iss = sub = the configured service-account user id, aud = the configured
\* issuer URL, iat = the time of that exchange in whole seconds and
\* exp = iat + 3600.
C20_AssertionClaims ==
    \A i \in 1..Len(jw.posted) :
       LET a == jw.posted[i].assertion
           at == jw.posted[i].at
       IN /\ a.header = [alg |-> "RS256", kid |-> "key-1"]
          /\ a.payload.iss = "sa-user" /\ a.payload.sub = "sa-user"
          /\ a.payload.aud = "https://test.zitadel.cloud"
          /\ a.payload.iat * 1000 <= at /\ at < (a.payload.iat + 1) * 1000
          /\ a.payload.exp = a.payload.iat + 3600
          /\ DOMAIN a.payload = {"iss", "sub", "aud", "iat", "exp"}

C20_Witness ==
    /\ Len(jw.posted) = 2
    /\ jw.posted[1].at = 1700 /\ jw.posted[1].assertion.payload.iat = 1
    /\ jw.posted[1].assertion.payload.exp = 3601
    /\ jw.posted[2].at = 3600001 /\ jw.posted[2].assertion.payload.iat = 3600
    /\ jw.posted[2].assertion.payload.exp = 7200
    /\ jw.posted[1].assertion # jw.posted[2].assertion

-----------------------------------------------------------------------------

(* zitadel_create_user_grant: C18 (SpecDispatch) *)

\* The call runs createUserGrantHandler.
GrantCall ==
    /\ call.toolName = "zitadel_create_user_grant"
    /\ call.invoked /\ call.handler.name = "createUserGrantHandler"

\* C18: zitadel_create_user_grant issues the grant creation (POST
\* /management/v1/users/<userId>/grants) only as its second request, after the
\* role search has returned, and only if every requested role key is among the
\* keys returned; if one is missing the call is answered with an isError result
\* whose text lists exactly the missing keys, in the caller's order, and the
\* role search is the only request issued.
C18_GrantAfterRoleCheck ==
    GrantCall =>
       LET roleKeys == call.rawArgs.roleKeys
           missing == {k \in 1..Len(roleKeys) :
                          call.roles # Null /\ ~InSeq(roleKeys[k], call.roles.v)}
           listed == [k \in 1..Len(roleKeys) |->
                         IF k \in missing THEN <<roleKeys[k]>> ELSE <<>>]
           names == IF Len(roleKeys) = 3 THEN listed[1] \o listed[2] \o listed[3]
                    ELSE IF Len(roleKeys) = 2 THEN listed[1] \o listed[2]
                    ELSE <<>>
       IN /\ \A i \in 1..Len(call.requests) :
                (call.requests[i].path[Len(call.requests[i].path)] = L("/grants")) =>
                   /\ i = 2
                   /\ call.requests[1].path[3] = L("/roles/_search")
                   /\ call.roles # Null
                   /\ missing = {}
          /\ (call.roles = Null) => Len(call.requests) <= 1
          /\ (missing # {}) =>
                /\ call.pc = "done"
                /\ Len(call.requests) = 1
                /\ call.response.isError = Bool(TRUE)
                /\ call.response.content.v[1].text =
                      "Cannot grant access: role(s) not found in project "
                      \o Join(call.input.projectId.seg, "") \o ": "
                      \o (IF Len(names) = 1 THEN names[1]
                          ELSE IF Len(names) = 2 THEN names[1] \o ", " \o names[2]
                          ELSE names[1] \o ", " \o names[2] \o ", " \o names[3])
                      \o "\nAvailable roles: "
                      \o (IF call.roles.v = <<>> THEN "none"
                          ELSE IF Len(call.roles.v) = 1 THEN call.roles.v[1]
                          ELSE call.roles.v[1] \o ", " \o call.roles.v[2])
                      \o "\n\nCreate the missing roles first with zitadel_create_project_role."

C18_Witness ==
    /\ GrantCall /\ call.pc = "done"
    /\ call.rawArgs.roleKeys = <<"ghost", "admin", "nobody">>
    /\ call.roles # Null /\ call.roles.v = <<"admin">>
    /\ Len(call.requests) = 1
    /\ call.response.isError = Bool(TRUE)
    /\ call.response.content.v[1].text =
          "Cannot grant access: role(s) not found in project 77: ghost, nobody\nAvailable roles: admin\n\nCreate the missing roles first with zitadel_create_project_role."

-----------------------------------------------------------------------------

(* Validation before any I/O: C19 (SpecDispatch) *)

\* The arguments of the call fail a precondition of its handler: an identifier
\* it puts into a path is missing or not of the form [A-Za-z0-9_-]+ (for
\* projectId: a supplied one is malformed, or none is supplied, none is
\* configured and the handler needs one), or another field is missing or
\* invalid (restOk).
FailsPrecondition ==
    LET code == HandlerCode[call.handler.name]
        has(op) == \E i \in 1..Len(code) : code[i].op = op
        parsed == UNION {IF code[i].op = "parse"
                         THEN {code[i].zid[k] : k \in 1..Len(code[i].zid)} ELSE {} :
                            i \in 1..Len(code)}
        pid == call.rawArgs.projectId
    IN \/ \E p \in parsed : ~zitadelId(p, call.rawArgs[p]).ok
       \/ ~call.rawArgs.restOk
       \/ (has("resolveProjectId") \/ has("projectOrCreate")) /\ "projectId" \notin parsed
             /\ ~Falsy(pid) /\ ~IdRegexTest(pid.v)
       \/ has("resolveProjectId") /\ Falsy(pid) /\ Falsy(ctx.config.projectId)

\* C19 as stated: when the arguments of a call fail a precondition of its
\* handler, the handler throws before it issues any client.request or any
\* database query: the call is over, answered from the thrown error, with no
\* request issued and no connection opened.
C19_RejectBeforeDispatch ==
    (/\ call.pc # "idle" /\ call.invoked
     /\ call.handler.name \in DOMAIN HandlerCode
     /\ FailsPrecondition)
    => /\ call.pc = "done" /\ call.thrown # Null
       /\ call.requests = <<>> /\ call.db = "none"

-----------------------------------------------------------------------------

(* Signing failure, concurrent exchanges, the cache's frame: C21, C24, C25, C27 (SpecClient) *)

\* C21: when the private key cannot be imported, a request() that finds no
\* valid cached token is rejected with the signing error at once: it has
\* called neither the token endpoint nor the backend, the token cache is as it
\* was, and the invocation does nothing more.
C21_SigningFailure ==
    [][\A r \in Slots :
          /\ (Starts(r) /\ ~keyOk /\ ~CacheValid(cachedToken, now)) =>
                /\ req'[r].pc = "rejected"
                /\ req'[r].error = Err("Invalid key")
                /\ req'[r].resp = Null
                /\ req'[r].tokenCalls = 0 /\ req'[r].backendCalls = 0
                /\ cachedToken' = cachedToken
          /\ (~keyOk /\ req[r].pc = "rejected" /\ req'[r] # req[r]) => Starts(r)]_vars

C21_Witness ==
    /\ ~keyOk /\ cachedToken = Null
    /\ req["A"].pc = "rejected" /\ req["A"].n = 1
    /\ req["A"].error = Err("Invalid key")
    /\ req["A"].tokenCalls = 0 /\ req["A"].backendCalls = 0
    /\ req["B"].pc = "rejected" /\ req["B"].n = 2 /\ req["B"].tokenCalls = 0

\* C24: token acquisition is not exclusive.  A request() that starts while the
\* cache is empty or expired (now >= expiresAt - 60000) calls the token endpoint
\* itself, whatever the other caller is doing; an exchange in flight can always
\* complete, whatever the other caller is doing; and the backend request of a
\* call that exchanged carries the token of its own exchange, whatever the
\* cache holds.
C24_IndependentExchanges ==
    [][\A r \in Slots :
          /\ (Starts(r) /\ keyOk
                /\ (cachedToken = Null \/ now >= cachedToken.expiresAt - 60000)) =>
                /\ req'[r].pc = "exchanging"
                /\ req'[r].tokenCalls = 1 /\ req'[r].backendCalls = 0
          /\ (req[r].pc = "exchanging") =>
                /\ ENABLED TokenExchangeOk(r)
                /\ ENABLED TokenExchangeFails(r)
          /\ (req[r].pc = "exchanging" /\ req'[r].pc = "fetching") =>
                /\ req'[r].xdata # Null
                /\ req'[r].xdata.access_token = req[r].n
                /\ req'[r].tok = req'[r].xdata.access_token
                /\ req'[r].backendCalls = 1]_vars

\* Both callers have an exchange in flight at the same time; one of them
\* started while a token that has expired since was cached.
C24_Witness ==
    /\ req["A"].pc = "exchanging" /\ req["B"].pc = "exchanging"
    /\ req["A"].tokenCalls = 1 /\ req["B"].tokenCalls = 1
    /\ cachedToken # Null /\ now >= cachedToken.expiresAt - 60000

\* C25: the token cache changes only in three kinds of step: an exchange
\* succeeds (the cache then holds that exchange's token), clearTokenCache is
\* called (empty), a backend call is answered 401 (empty).  A start of a
\* request (cache hit or not), a refused exchange, a 2xx answer and a failed
\* answer other than 401 leave it as it was.  The configuration never changes.
C25_CacheFrame ==
    [][/\ (cachedToken' # cachedToken) =>
             \/ \E r \in Slots :
                   /\ req[r].pc = "exchanging" /\ req'[r].pc = "fetching"
                   /\ cachedToken' # Null /\ cachedToken'.token = req'[r].tok
             \/ \E r \in Slots :
                   /\ req[r].pc = "fetching" /\ req'[r].pc = "rejected"
                   /\ req'[r].resp.status = 401 /\ cachedToken' = Null
             \/ req' = req /\ now' = now /\ cachedToken' = Null
       /\ \A r \in Slots :
             /\ Starts(r) => cachedToken' = cachedToken
             /\ (req[r].pc = "exchanging" /\ req'[r].pc = "rejected") =>
                   cachedToken' = cachedToken
             /\ (req[r].pc = "fetching" /\ req'[r].pc = "resolved") =>
                   cachedToken' = cachedToken
             /\ (req[r].pc = "fetching" /\ req'[r].pc = "rejected"
                   /\ req'[r].resp.status # 401) => cachedToken' = cachedToken
       /\ ctx' = ctx /\ keyOk' = keyOk]_vars

\* A call was answered 500 and the token it used is still cached; the other
\* call was served that token from the cache and answered 2xx.
C25_Witness ==
    \E q, r \in Slots :
       /\ Refused(q, "api") /\ req[q].resp.status = 500
       /\ req[r].pc = "resolved" /\ req[r].src = "cache"
       /\ cachedToken # Null /\ cachedToken.token = req[q].tok
       /\ req[r].tok = req[q].tok

\* The expiry the cache gets from a token response received at time t.
ExpiryOf(xdata, t) ==
    t + (IF xdata.expires_in \in {Undefined, Num(0)} THEN 3600 ELSE xdata.expires_in.v) * 1000

\* C27: under every interleaving of the two callers the cache is empty or holds
\* the token and the expiry of one and the same token response: the step in
\* which an exchange completes stores exactly the pair of that response, so
\* after several exchanges the cache holds the pair of the one that completed
\* last; and whenever the cached token is the one a caller's exchange
\* received, the cached expiry is the one computed from that response.
C27_CachePair ==
    [][/\ \A r \in Slots :
             (req[r].pc = "exchanging" /\ req'[r].pc = "fetching") =>
                cachedToken' = [token |-> req'[r].xdata.access_token,
                                expiresAt |-> ExpiryOf(req'[r].xdata, now)]
       /\ (cachedToken' # Null) =>
             \A r \in Slots :
                (req'[r].xdata # Null /\ req'[r].xdata.access_token = cachedToken'.token)
                   => cachedToken'.expiresAt = ExpiryOf(req'[r].xdata, req'[r].xat)]_vars

\* Invocation 1 started first and completed its exchange last: the cache holds
\* its pair (default lifetime, from 3500000), not the token of invocation 2
\* with it, nor its token with the two hours of invocation 2.
C27_Witness ==
    \E q, r \in Slots :
       /\ req[q].n = 2 /\ req[q].xdata # Null /\ req[q].xdata.expires_in = Num(7200)
       /\ req[q].xat = 0
       /\ req[r].n = 1 /\ req[r].xdata # Null /\ req[r].xdata.expires_in = Undefined
       /\ req[r].xat = 3500000
       /\ cachedToken = [token |-> 1, expiresAt |-> 7100000]

(* The message of a failed backend call: C26 (SpecRequest) *)

\* The body of the response is JSON with a non-empty message.
HasMessage(text) ==
    LET p == JSONParse(text)
    IN /\ p.ok
       /\ p.value # Null
       /\ "message" \in DOMAIN p.value
       /\ p.value.message.txt # ""

\* C26: for every response outside 200..299 request() throws an Error whose
\* message is, behind the fixed words "Zitadel API error: ", the message field
\* of the body when the body parses as JSON and has a non-empty message, and
\* otherwise (body not JSON, null, without message, or with an empty one)
\* "HTTP " followed by the status code and nothing else.
C26_ErrorMessage ==
    (rq.out # NotRun /\ ~(rq.response.status >= 200 /\ rq.response.status <= 299)) =>
       /\ rq.out.outcome.kind = "throw"
       /\ rq.out.outcome.value.name = "Error"
       /\ rq.out.outcome.value.message =
             "Zitadel API error: " \o
                (IF HasMessage(rq.response.text)
                 THEN JSONParse(rq.response.text).value.message.txt
                 ELSE "HTTP " \o ToString(rq.response.status))

\* A 401 whose body is JSON with an empty message: the status is the message.
C26_Witness ==
    /\ rq.out # NotRun
    /\ rq.response = [status |-> 401, text |-> "{\"message\":\"\"}"]
    /\ rq.out.outcome.value.message = "Zitadel API error: HTTP 401"

(* The full setup workflow: C23 (SpecDispatch) *)

SetupCall == call.handler # Undefined /\ call.handler.name = "portalSetupFullAppHandler"

\* The backend refused the latest request of the call because what it was to
\* create is there already.
RefusedAsExisting ==
    call.resp # Null /\ call.resp.from = "api" /\ call.resp.status = 409

\* What the call has issued so far is the beginning of: the project (when the
\* caller and the configuration give none), the OIDC app, the role; and the
\* portal connection is opened after them.
SetupInOrder ==
    LET kinds == [i \in 1..Len(call.requests) |->
                    call.requests[i].path[Len(call.requests[i].path)].lit]
    IN /\ \E full \in {<<"/management/v1/projects", "/apps/oidc", "/roles">>,
                       <<"/apps/oidc", "/roles">>} :
             Len(kinds) <= Len(full) /\ kinds = SubSeq(full, 1, Len(kinds))
       /\ (call.db # "none") =>
             /\ Len(kinds) >= 2 /\ kinds[Len(kinds)] = "/roles"
             /\ InSeq("2. Created OIDC app", call.results)

\* C23: in portal_setup_full_app the requests go out in the order project (when
\* none is given), OIDC app, project role, and the portal connection is opened
\* only after the role step; the role step is reported as already existing
\* (skipped), and the workflow goes on, only when the backend refused the role
\* as already existing; after any other failure the call is answered as a
\* failure and nothing further is issued.
C23_SetupWorkflow ==
    SetupCall =>
       /\ SetupInOrder
       /\ InSeq("3. Role already exists (skipped)", call.results) => RefusedAsExisting
       /\ (call.resp # Null /\ ~RefusedAsExisting) =>
             /\ call.pc = "done"
             /\ call.response.isError = Bool(TRUE)
             /\ call.db = "none"

(* The portal connection: C29 (SpecDispatch) *)

\* C29: whenever a tool call is answered, the portal connection its handler
\* opened (portal_register_app, portal_setup_full_app) has been ended, whether
\* the handler inserted the row, found the slug, or had a query fail; no other
\* handler opens one; and every INSERT the handler sends comes directly after a
\* SELECT bound to the same slug that returned no row.
C29_ConnectionClosed ==
    /\ (call.pc = "done") => call.db \in {"none", "closed"}
    /\ (call.pc = "closing") => call.db = "open"
    /\ (call.db # "none") =>
          call.handler.name \in {"portalRegisterAppHandler", "portalSetupFullAppHandler"}
    /\ (call.queries # <<>>) => call.db # "none"
    /\ \A i \in 1..Len(call.queries) :
          (call.queries[i].sql = "insert") =>
             /\ i > 1
             /\ call.queries[i - 1].sql = "select"
             /\ call.queries[i - 1].slug = call.queries[i].slug
             /\ call.queries[i - 1].rows = Num(0)

\* The full setup whose INSERT failed after the SELECT found nothing: answered
\* as an error, with the connection ended.
C29_Witness ==
    /\ call.pc = "done"
    /\ SetupCall
    /\ call.queries = <<[sql |-> "select", slug |-> "input.slug", rows |-> Num(0)],
                        [sql |-> "insert", slug |-> "input.slug", rows |-> [t |-> "rejected"]]>>
    /\ call.db = "closed"
    /\ call.response.isError = Bool(TRUE)

(* Redacted fields and the log: C28 (SpecLogs) *)

\* The two argument objects have the same fields and agree on every field
\* outside the redaction set.
DifferOnlyInRedacted(a, b) ==
    /\ DOMAIN a = DOMAIN b
    /\ \A k \in DOMAIN a \ REDACTED_FIELDS : a[k] = b[k]

\* C28: two calls of the same tool, under the same log level, whose arguments
\* differ only in the values of redacted fields (email, firstName, lastName,
\* userName, redirectUris, postLogoutRedirectUris, appUrl, iconUrl) write the
\* same log records, those of the dispatcher and of the handler together.
C28_LogsHideRedacted ==
    (lg.served = {1, 2} /\ DifferOnlyInRedacted(lg.args[1], lg.args[2])) =>
       lg.records[1] = lg.records[2]

(* Every call is answered: C30 (SpecDispatchLive) *)

====
